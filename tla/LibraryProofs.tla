---------------------------- MODULE LibraryProofs ----------------------------
(***************************************************************************)
(* The matcher never turns a player away, the rankings of the rating       *)
(* scenarios are outcomes a game can have, the rating storage is over its  *)
(* limit only until the next clean-up, and the wait times keep to their    *)
(* bounds.                                                                 *)
(***************************************************************************)
EXTENDS Matching, RatingScenarios, RatingStorage, WaitTime, TLAPS, FiniteSetTheorems,
        WellFoundedInduction

(***************************************************************************)
(* Matching.                                                               *)
(***************************************************************************)

LEMMA Scaling ==
    ASSUME NEW a \in Nat, NEW r \in Int, NEW b \in Int, b <= r
    PROVE  a * r \in Int /\ a * b \in Int /\ a * b <= a * r
  OBVIOUS

LEMMA RatingScoreBounded ==
    ASSUME NEW p \in Seeker, NEW l \in Offered
    PROVE  RatingScore(p, l) \in Int /\ RatingScore(p, l) >= -50
<1>1. l.quality \in 0..100 /\ l.bonus \in 0..20
  BY MatchingAssumption DEF Offered
<1>2. QED
  BY <1>1 DEF RatingScore

\* The score of a lobby is a number, and that of one the player may enter is well
\* above the threshold.
LEMMA JoinableScore ==
    ASSUME NEW p \in Seeker, NEW l \in Offered
    PROVE  /\ LobbyScore(p, l) \in Int
           /\ CanJoin(p, l) => /\ LobbyScore(p, l) > 0
                               /\ LobbyScore(p, l) >= Scale * WaitThreshold
<1> DEFINE R == RatingScore(p, l)
           T == TypeScore(p, l)
           W == WaitTimeScore(l)
           F == FullnessScore(l)
<1>1. Seats \in Nat /\ Seats >= 1 /\ Scale = 10 * Seats /\ Scale \in Nat
  BY MatchingAssumption DEF Scale
<1>2. R \in Int /\ R >= -50
  BY RatingScoreBounded
<1>3. /\ p.type \in {"Human", "Bot"} /\ l.lobby_type \in {"AllBot", "General"}
      /\ l.players \in Seq(PlayerRating) /\ Len(l.players) \in Nat
  <2>1. PICK n \in 0..MaxSeated : l.players \in [1..n -> PlayerRating]
    BY DEF Offered
  <2>2. l.players \in Seq(PlayerRating)
    BY <2>1, MatchingAssumption
  <2>3. QED
    BY <2>2 DEF Seeker, PlayerType, Offered, OfferedType
<1>4. T \in Int /\ (IsEligible(p, l) => T >= 80)
  BY <1>3 DEF TypeScore, IsEligible
<1>5. W \in Int /\ (IsEligible(p, l) => W >= 10)
  BY DEF WaitTimeScore, IsEligible
<1>6. /\ F \in Int
      /\ CanJoin(p, l) /\ ~IsEmpty(l) => F >= 50 * Seats
      /\ IsEmpty(l) => F = 10 * Seats
  <2>1. 50 * Seats \in Int /\ 10 * Seats \in Int
    BY <1>1
  <2>2. CASE IsEmpty(l)
    BY <2>1, <2>2 DEF FullnessScore
  <2>3. CASE ~IsEmpty(l) /\ Len(l.players) < Seats
    BY <2>1, <2>3, <1>1, <1>3 DEF FullnessScore
  <2>4. CASE ~IsEmpty(l) /\ ~(Len(l.players) < Seats)
    BY <2>1, <2>4 DEF FullnessScore, CanJoin
  <2>5. QED
    BY <2>2, <2>3, <2>4
<1> DEFINE St == Scale * T
           Sw == 6 * Seats * W
           Sr == 12 * Seats * R
<1>7. St \in Int /\ Sw \in Int /\ Sr \in Int
  <2>1. 6 * Seats \in Nat /\ 12 * Seats \in Nat
    BY <1>1
  <2>2. QED
    BY <2>1, <1>1, <1>2, <1>4, <1>5, Scaling
<1>8. Sr >= -600 * Seats
  <2>1. 12 * Seats \in Nat /\ (12 * Seats) * (-50) = -600 * Seats
    BY <1>1
  <2>2. QED
    BY <2>1, <1>2, Scaling
<1>9. IsEligible(p, l) => St >= 800 * Seats /\ Sw >= 60 * Seats
  <2>1. 6 * Seats \in Nat /\ (6 * Seats) * 10 = 60 * Seats /\ Scale * 80 = 800 * Seats
    BY <1>1
  <2>2. IsEligible(p, l) => St >= Scale * 80
    BY <1>1, <1>4, Scaling
  <2>3. IsEligible(p, l) => Sw >= (6 * Seats) * 10
    BY <2>1, <1>5, Scaling
  <2>4. QED
    BY <2>1, <2>2, <2>3
<1>10. LobbyScore(p, l) = IF ~IsEligible(p, l) THEN 0 ELSE St + 8 * F + Sw + Sr
  BY DEF LobbyScore
<1>11. LobbyScore(p, l) \in Int
  BY <1>6, <1>7, <1>10
<1>12. ASSUME CanJoin(p, l) PROVE LobbyScore(p, l) >= 660 * Seats
  <2>1. IsEligible(p, l)
    BY <1>12 DEF CanJoin
  <2>2. CASE ~IsEmpty(l)
    <3> HIDE DEF St, Sw, Sr, F
    <3>1. QED
      BY <1>1, <1>6, <1>7, <1>8, <1>9, <1>10, <1>12, <2>1, <2>2
  <2>3. CASE IsEmpty(l)
    <3>1. Sr = 600 * Seats
      BY <2>3, <1>1 DEF RatingScore
    <3> HIDE DEF St, Sw, Sr, F
    <3>2. QED
      BY <1>1, <1>6, <1>7, <1>9, <1>10, <2>1, <2>3, <3>1
  <2>4. QED
    BY <2>2, <2>3
<1>13. Scale * WaitThreshold = 300 * Seats
  BY <1>1 DEF WaitThreshold
<1>14. QED
  <2> HIDE DEF St, Sw, Sr, F, R, T, W
  <2>1. QED
    BY <1>1, <1>11, <1>12, <1>13

\* The loop has a best lobby as soon as it has seen one to consider, and the best is
\* one of those it has seen.
LoopInv ==
    /\ \A i \in 1..position : Considered(i) => best # 0
    /\ best # 0 => Considered(best)
    /\ decision # Undecided => position = Len(offered)

MatchInv == MatchTypeOK /\ LoopInv /\ FirstOfTheBest /\ MatchesWheneverJoinable

LEMMA ScoresCompare ==
    ASSUME MatchTypeOK, NEW i \in 1..Len(offered)
    PROVE  /\ offered[i] \in Offered
           /\ Score(i) \in Int
           /\ CanJoin(seeker, offered[i]) => Considered(i) /\ Score(i) > 0
<1>1. seeker \in Seeker /\ offered[i] \in Offered
  BY DEF MatchTypeOK
<1>2. Scale * WaitThreshold \in Int
  BY MatchingAssumption DEF Scale, WaitThreshold
<1>3. QED
  BY <1>1, <1>2, JoinableScore DEF Score, Considered

LEMMA MatchStart == MatchInit => MatchInv
<1> SUFFICES ASSUME MatchInit PROVE MatchInv
  OBVIOUS
<1>1. offered \in Seq(Offered)
  <2>1. PICK n \in 0..MaxOffered : offered \in [1..n -> Offered]
    BY DEF MatchInit
  <2>2. QED
    BY <2>1, MatchingAssumption
<1>2. MatchTypeOK
  BY <1>1 DEF MatchInit, MatchTypeOK
<1>3. LoopInv /\ FirstOfTheBest /\ MatchesWheneverJoinable
  BY DEF MatchInit, LoopInv, FirstOfTheBest, MatchesWheneverJoinable
<1>4. QED
  BY <1>2, <1>3 DEF MatchInv

LEMMA MatchStep == MatchInv /\ [MatchNext]_matchVars => MatchInv'
<1> SUFFICES ASSUME MatchInv, [MatchNext]_matchVars PROVE MatchInv'
  OBVIOUS
<1>0. /\ MatchTypeOK /\ LoopInv /\ FirstOfTheBest /\ MatchesWheneverJoinable
      /\ Len(offered) \in Nat /\ position \in Nat /\ best \in Nat /\ best <= position
  BY DEF MatchInv, MatchTypeOK
<1>1. CASE Examine
  <2>1. /\ seeker' = seeker /\ offered' = offered /\ decision' = decision
        /\ position' = position + 1 /\ position < Len(offered)
        /\ best' = IF Considered(position + 1)
                         /\ (best # 0 => Score(position + 1) > Score(best))
                   THEN position + 1 ELSE best
    BY <1>1 DEF Examine
  <2>2. /\ \A i : Score(i)' = Score(i)
        /\ \A i : Considered(i)' = Considered(i)
    BY <2>1 DEF Score, Considered
  <2>3. decision = Undecided
    BY <1>0, <2>1 DEF LoopInv
  <2>4. MatchTypeOK'
    BY <1>0, <2>1 DEF MatchTypeOK
  <2>5. LoopInv'
    BY <1>0, <2>1, <2>2, <2>3 DEF LoopInv
  <2>6. FirstOfTheBest'
    <3>1. \A i \in 1..(position + 1) : Score(i) \in Int
      BY <1>0, <2>1, ScoresCompare
    <3>2. CASE best' = position + 1 /\ best = 0
      BY <1>0, <2>1, <2>2, <3>1, <3>2 DEF FirstOfTheBest, LoopInv
    <3>3. CASE best' = position + 1 /\ best # 0
      <4>1. Score(position + 1) > Score(best) /\ best \in 1..position
        BY <1>0, <2>1, <3>3
      <4>2. \A i \in 1..position : Considered(i) => Score(i) < Score(position + 1)
        BY <1>0, <3>1, <4>1 DEF FirstOfTheBest
      <4>3. QED
        BY <1>0, <2>1, <2>2, <3>1, <3>3, <4>2 DEF FirstOfTheBest
    <3>4. CASE best' = best /\ best # 0 /\ best' # position + 1
      <4>1. Considered(position + 1) => Score(position + 1) <= Score(best)
        BY <1>0, <2>1, <3>1, <3>4
      <4>2. QED
        BY <1>0, <2>1, <2>2, <3>4, <4>1 DEF FirstOfTheBest
    <3>5. CASE best' = 0
      BY <3>5 DEF FirstOfTheBest
    <3>6. QED
      BY <2>1, <3>2, <3>3, <3>4, <3>5
  <2>7. MatchesWheneverJoinable'
    BY <2>1, <2>3 DEF MatchesWheneverJoinable
  <2>8. QED
    BY <2>4, <2>5, <2>6, <2>7 DEF MatchInv
<1>2. CASE Decide
  <2>1. /\ seeker' = seeker /\ offered' = offered /\ position' = position /\ best' = best
        /\ position = Len(offered)
        /\ decision' = IF best # 0 /\ Score(best) > 0 THEN Matched(best)
                       ELSE IF \E i \in 1..Len(offered) : ~IsEmpty(offered[i]) THEN ShouldWait
                       ELSE CreateNewLobby
    BY <1>2 DEF Decide
  <2>2. /\ \A i : Score(i)' = Score(i)
        /\ \A i : Considered(i)' = Considered(i)
    BY <2>1 DEF Score, Considered
  <2>3. MatchTypeOK'
    BY <1>0, <2>1 DEF MatchTypeOK
  <2>4. LoopInv' /\ FirstOfTheBest'
    BY <1>0, <2>1, <2>2 DEF LoopInv, FirstOfTheBest
  <2>5. MatchesWheneverJoinable'
    <3>1. CASE \E i \in 1..Len(offered) : CanJoin(seeker, offered[i])
      <4>1. best # 0 /\ Considered(best)
        BY <1>0, <2>1, <3>1, ScoresCompare DEF LoopInv
      <4>2. CanJoin(seeker, offered[best]) /\ best \in 1..Len(offered)
        BY <1>0, <2>1, <4>1 DEF Considered
      <4>3. Score(best) > 0
        BY <1>0, <4>2, ScoresCompare
      <4>4. QED
        BY <2>1, <3>1, <4>1, <4>2, <4>3 DEF MatchesWheneverJoinable
    <3>2. CASE ~ \E i \in 1..Len(offered) : CanJoin(seeker, offered[i])
      <4>1. best = 0
        BY <1>0, <2>1, <3>2 DEF LoopInv, Considered
      <4>2. QED
        BY <2>1, <3>2, <4>1 DEF MatchesWheneverJoinable
    <3>3. QED
      BY <3>1, <3>2
  <2>6. QED
    BY <2>3, <2>4, <2>5 DEF MatchInv
<1>3. CASE UNCHANGED matchVars
  BY <1>0, <1>3 DEF matchVars, MatchInv, MatchTypeOK, LoopInv, FirstOfTheBest,
                    MatchesWheneverJoinable, Score, Considered
<1>4. QED
  BY <1>1, <1>2, <1>3 DEF MatchNext

THEOREM MatchInvariant == MatchSpec => []MatchInv
<1>1. QED
  BY MatchStart, MatchStep, PTL DEF MatchSpec

\* For any ratings, any number of lobbies and any capacity the matcher with its default
\* configuration sends a player to a lobby it may enter, if one was offered: no distance
\* between the ratings is large enough to be turned away, which makes the counterexample
\* to MatchedWithinDifference the rule.
THEOREM MatcherNeverDeclines == MatchSpec => []MatchesWheneverJoinable
<1>1. MatchInv => MatchesWheneverJoinable
  BY DEF MatchInv
<1>2. QED
  BY <1>1, MatchInvariant, PTL

\* It is the first of the lobbies with the best score.
THEOREM MatcherFindsBest == MatchSpec => []FirstOfTheBest
<1>1. MatchInv => FirstOfTheBest
  BY DEF MatchInv
<1>2. QED
  BY <1>1, MatchInvariant, PTL

(***************************************************************************)
(* Rating scenarios.                                                       *)
(***************************************************************************)

\* The scenarios come in the order of the two loops, all of them in the end.
LoopOrder ==
    /\ target <= size => rank <= size
    /\ \A p, r \in Roster :
        <<p, r>> \in rated <=> p < target \/ (p = target /\ r < rank)

ScenarioInv == ScenarioTypeOK /\ OutcomesPossible /\ LoopOrder

\* A balanced ranking is a permutation of the places of the game.
LEMMA BalancedIsPermutation ==
    ASSUME size \in Nat, NEW t \in Roster, NEW r \in Roster
    PROVE  /\ BalancedRankings(t, r) \in [Roster -> Roster]
           /\ \A p, q \in Roster :
                p # q => BalancedRankings(t, r)[p] # BalancedRankings(t, r)[q]
           /\ BalancedRankings(t, r)[t] = r
<1> DEFINE place(p) == IF p < t THEN p ELSE p - 1
           B(p) == IF p = t THEN r ELSE IF place(p) < r THEN place(p) ELSE place(p) + 1
<1>1. BalancedRankings(t, r) = [p \in Roster |-> B(p)]
  BY DEF BalancedRankings, AvailableRank
<1>2. size \in Nat /\ t \in Int /\ r \in Int /\ 1 <= t /\ t <= size /\ 1 <= r /\ r <= size
  BY DEF Roster
<1>3. \A p \in Roster : B(p) \in Roster
  BY <1>2 DEF Roster
<1>4. \A p, q \in Roster : p # q => B(p) # B(q)
  BY <1>2 DEF Roster
<1>5. B(t) = r
  OBVIOUS
<1> HIDE DEF B
<1>6. QED
  BY <1>1, <1>3, <1>4, <1>5

LEMMA ScenarioStart == ScenarioInit => ScenarioInv
<1> SUFFICES ASSUME ScenarioInit PROVE ScenarioInv
  OBVIOUS
<1>1. size \in Nat /\ size \in 0..MaxPlayers /\ target = 1 /\ rank = 1 /\ rated = {}
      /\ rankings = [p \in Roster |-> p]
  BY ScenarioAssumption DEF ScenarioInit
<1>2. rankings \in [Roster -> Int] /\ (\A p \in Roster : rankings[p] = p)
  BY <1>1 DEF Roster
<1>3. ScenarioTypeOK
  BY <1>1, <1>2 DEF ScenarioTypeOK
<1>4. target > size => Roster = {}
  BY <1>1 DEF Roster
<1>5. OutcomesPossible
  BY <1>1, <1>2, <1>4 DEF OutcomesPossible
<1>6. LoopOrder
  BY <1>1 DEF LoopOrder, Roster
<1>7. QED
  BY <1>3, <1>5, <1>6 DEF ScenarioInv

LEMMA ScenarioStep == ScenarioInv /\ [Rate]_scenarioVars => ScenarioInv'
<1> SUFFICES ASSUME ScenarioInv, [Rate]_scenarioVars PROVE ScenarioInv'
  OBVIOUS
<1>0. /\ ScenarioTypeOK /\ OutcomesPossible /\ LoopOrder
      /\ size \in Nat /\ target \in Nat /\ rank \in Nat /\ target >= 1 /\ rank >= 1
  BY ScenarioAssumption DEF ScenarioInv, ScenarioTypeOK
<1>1. CASE Rate
  <2>1. /\ target <= size /\ rank <= size /\ size' = size
        /\ rankings' = BalancedRankings(target, rank)
        /\ rated' = rated \cup {<<target, rank>>}
        /\ (IF rank < size THEN rank' = rank + 1 /\ target' = target
                          ELSE rank' = 1 /\ target' = target + 1)
    <3>1. target \in Roster
      BY <1>0, <1>1 DEF Rate, Roster
    <3>2. Answered(BalancedRankings(target, rank))
      BY <3>1 DEF Answered, BalancedRankings
    <3>3. QED
      BY <1>0, <1>1, <3>2 DEF Rate, LoopOrder
  <2>2. Roster' = Roster /\ target \in Roster /\ rank \in Roster
    BY <1>0, <2>1 DEF Roster
  <2>3. /\ rankings' \in [Roster -> Roster]
        /\ \A p, q \in Roster : p # q => rankings'[p] # rankings'[q]
    BY <1>0, <2>1, <2>2, BalancedIsPermutation
  <2>4. \A p, r \in Roster :
            <<p, r>> \in rated' <=> p < target' \/ (p = target' /\ r < rank')
    <3> SUFFICES ASSUME NEW p \in Roster, NEW r \in Roster
                 PROVE  <<p, r>> \in rated' <=> p < target' \/ (p = target' /\ r < rank')
      OBVIOUS
    <3>1. <<p, r>> \in rated' <=> <<p, r>> \in rated \/ (p = target /\ r = rank)
      BY <2>1
    <3>2. <<p, r>> \in rated <=> p < target \/ (p = target /\ r < rank)
      BY <1>0 DEF LoopOrder
    <3>3. p \in Nat /\ r \in Nat /\ 1 <= r /\ r <= size
      BY <1>0 DEF Roster
    <3>4. QED
      BY <1>0, <2>1, <3>1, <3>2, <3>3
  <2>5. rated' \subseteq Roster \X Roster
    BY <1>0, <2>1, <2>2 DEF ScenarioTypeOK
  <2>6. \A p \in Roster : p \in Nat /\ p <= size
    BY <1>0 DEF Roster
  <2>7. target' \in 1..(size + 1) /\ rank' \in 1..(size + 1)
        /\ (target' <= size => rank' <= size)
    BY <1>0, <2>1
  <2>8. target' > size => rated' = Roster \X Roster
    <3> SUFFICES ASSUME target' > size PROVE \A p, r \in Roster : <<p, r>> \in rated'
      BY <2>5
    <3>1. target' \in Int
      BY <2>7
    <3>2. \A p \in Roster : p < target'
      BY <2>6, <3>1, <1>0
    <3>3. QED
      BY <2>4, <3>2
  <2>9. ScenarioTypeOK'
    <3>1. rankings' \in [Roster -> Int]
      BY <2>3 DEF Roster
    <3>2. size' \in 0..MaxPlayers
      BY <1>0, <2>1 DEF ScenarioTypeOK
    <3>3. QED
      BY <2>1, <2>2, <2>5, <2>7, <3>1, <3>2 DEF ScenarioTypeOK
  <2>10. OutcomesPossible'
    BY <2>1, <2>2, <2>3, <2>8 DEF OutcomesPossible
  <2>11. LoopOrder'
    BY <2>1, <2>2, <2>4, <2>7 DEF LoopOrder
  <2>12. QED
    BY <2>9, <2>10, <2>11 DEF ScenarioInv
<1>2. CASE UNCHANGED scenarioVars
  BY <1>0, <1>2 DEF scenarioVars, ScenarioInv, ScenarioTypeOK, OutcomesPossible,
                    LoopOrder, Roster
<1>3. QED
  BY <1>1, <1>2

THEOREM ScenarioInvariant == ScenarioSpec => []ScenarioInv
<1>1. QED
  BY ScenarioStart, ScenarioStep, PTL DEF ScenarioSpec

\* For a game of any size every ranking that is rated is a possible outcome, and the
\* finished table has one scenario for every player and rank.
THEOREM ScenariosArePossible == ScenarioSpec => []OutcomesPossible
<1>1. ScenarioInv => OutcomesPossible
  BY DEF ScenarioInv
<1>2. QED
  BY <1>1, ScenarioInvariant, PTL

(***************************************************************************)
(* Rating storage.                                                         *)
(***************************************************************************)

StorageInv == StorageTypeOK /\ StorageBounded

LEMMA EntryMapsDomain ==
    ASSUME NEW f \in EntryMaps
    PROVE  /\ DOMAIN f \subseteq RatedPlayer
           /\ IsFiniteSet(DOMAIN f)
           /\ f \in [DOMAIN f -> Entry]
<1>1. PICK S \in SUBSET RatedPlayer : f \in [S -> Entry]
  BY DEF EntryMaps
<1>2. IsFiniteSet(S)
  BY StorageAssumption, FS_Subset
<1>3. QED
  BY <1>1, <1>2

LEMMA EntryMapsIntro ==
    ASSUME NEW S \in SUBSET RatedPlayer, NEW f \in [S -> Entry]
    PROVE  f \in EntryMaps
  BY DEF EntryMaps

LEMMA EmptyMap == NoEntries \in EntryMaps /\ DOMAIN NoEntries = {}
<1>1. NoEntries \in [{} -> Entry]
  BY DEF NoEntries
<1>2. QED
  BY <1>1, EntryMapsIntro

LEMMA MergedMap ==
    ASSUME ratings \in EntryMaps, NEW f \in EntryMaps
    PROVE  WithEntries(f) \in EntryMaps /\ DOMAIN ratings \subseteq DOMAIN WithEntries(f)
<1> DEFINE S == DOMAIN f \cup DOMAIN ratings
<1>1. S \in SUBSET RatedPlayer
  BY EntryMapsDomain
<1>2. \A p \in S : (IF p \in DOMAIN f THEN f[p] ELSE ratings[p]) \in Entry
  BY EntryMapsDomain
<1>3. WithEntries(f) \in [S -> Entry]
  BY <1>2 DEF WithEntries
<1>4. QED
  BY <1>1, <1>3, EntryMapsIntro

LEMMA RestrictedMap ==
    ASSUME NEW f \in EntryMaps, NEW S \in SUBSET DOMAIN f
    PROVE  Restrict(f, S) \in EntryMaps /\ DOMAIN Restrict(f, S) = S
<1>1. Restrict(f, S) \in [S -> Entry]
  BY EntryMapsDomain DEF Restrict
<1>2. S \in SUBSET RatedPlayer
  BY EntryMapsDomain
<1>3. QED
  BY <1>1, <1>2, EntryMapsIntro DEF Restrict

\* What is left when the surplus goes is exactly as much as may be kept.
LEMMA SurplusIsEnough ==
    ASSUME ratings \in EntryMaps, NEW V, Surplus(V)
    PROVE  Cardinality(DOMAIN ratings \ V) = MaxEntries
<1> DEFINE D == DOMAIN ratings
<1>1. IsFiniteSet(D) /\ Cardinality(D) \in Nat /\ V \subseteq D
  BY EntryMapsDomain, FS_CardinalityType DEF Surplus
<1>2. Cardinality(D \ V) = Cardinality(D) - Cardinality(D \cap V)
  BY <1>1, FS_Difference
<1>3. D \cap V = V
  BY <1>1
<1>4. QED
  BY <1>1, <1>2, <1>3, StorageAssumption DEF Surplus

LEMMA StorageStart == StorageInit => StorageInv
<1> SUFFICES ASSUME StorageInit PROVE StorageInv
  OBVIOUS
<1>1. StorageTypeOK
  BY EmptyMap, StorageAssumption DEF StorageInit, StorageTypeOK
<1>2. Cardinality(DOMAIN ratings) = 0
  BY EmptyMap, FS_EmptySet DEF StorageInit
<1>3. StorageBounded
  BY <1>2, StorageAssumption DEF StorageBounded
<1>4. QED
  BY <1>1, <1>3 DEF StorageInv

LEMMA StorageStep == StorageInv /\ [StorageNext]_storageVars => StorageInv'
<1> SUFFICES ASSUME StorageInv, [StorageNext]_storageVars PROVE StorageInv'
  OBVIOUS
<1>0. StorageTypeOK /\ StorageBounded
  BY DEF StorageInv
<1>1. CASE \E c \in Rater : \E S \in SUBSET RatedPlayer \ {{}} : PrepareEntries(c, S)
  <2>1. PICK c \in Rater, S \in SUBSET RatedPlayer : PrepareEntries(c, S)
    BY <1>1
  <2>2. [p \in S |-> today] \in EntryMaps
    BY <1>0, EntryMapsIntro DEF StorageTypeOK, Entry
  <2>3. StorageTypeOK'
    BY <1>0, <2>1, <2>2 DEF PrepareEntries, StorageTypeOK
  <2>4. StorageBounded'
    BY <1>0, <2>1 DEF PrepareEntries, StorageBounded
  <2>5. QED
    BY <2>3, <2>4 DEF StorageInv
<1>2. CASE \E c \in Rater : StoreEntries(c)
  <2>1. PICK c \in Rater : StoreEntries(c)
    BY <1>2
  <2>2. WithEntries(drafts[c]) \in EntryMaps
    BY <1>0, MergedMap DEF StorageTypeOK
  <2>3. StorageTypeOK'
    BY <1>0, <2>1, <2>2, EmptyMap DEF StoreEntries, StorageTypeOK
  <2>4. StorageBounded'
    BY <2>1 DEF StoreEntries, StorageBounded
  <2>5. QED
    BY <2>3, <2>4 DEF StorageInv
<1>3. CASE \E c \in Rater : CleanupEntries(c)
  <2>1. PICK c \in Rater : CleanupEntries(c)
    BY <1>3
  <2>2. CASE Cardinality(DOMAIN ratings) > MaxEntries
    <3>1. PICK V \in SUBSET DOMAIN ratings :
                Surplus(V) /\ ratings' = Restrict(ratings, DOMAIN ratings \ V)
      BY <2>1, <2>2 DEF CleanupEntries
    <3>2. ratings' \in EntryMaps /\ DOMAIN ratings' = DOMAIN ratings \ V
      BY <1>0, <3>1, RestrictedMap DEF StorageTypeOK
    <3>3. Cardinality(DOMAIN ratings') = MaxEntries
      BY <1>0, <3>1, <3>2, SurplusIsEnough DEF StorageTypeOK
    <3>4. StorageTypeOK'
      BY <1>0, <2>1, <3>2 DEF CleanupEntries, StorageTypeOK
    <3>5. StorageBounded'
      BY <3>3, StorageAssumption DEF StorageBounded
    <3>6. QED
      BY <3>4, <3>5 DEF StorageInv
  <2>3. CASE ~(Cardinality(DOMAIN ratings) > MaxEntries)
    <3>1. ratings' = ratings
      BY <2>1, <2>3 DEF CleanupEntries
    <3>2. StorageTypeOK'
      BY <1>0, <2>1, <3>1 DEF CleanupEntries, StorageTypeOK
    <3>3. StorageBounded'
      BY <2>3, <3>1 DEF StorageBounded
    <3>4. QED
      BY <3>2, <3>3 DEF StorageInv
  <2>4. QED
    BY <2>2, <2>3
<1>4. CASE \E p \in RatedPlayer : RemoveEntry(p)
  <2>1. PICK p \in RatedPlayer : RemoveEntry(p)
    BY <1>4
  <2>2. ratings' \in EntryMaps /\ DOMAIN ratings' = DOMAIN ratings \ {p}
    BY <1>0, <2>1, RestrictedMap DEF RemoveEntry, StorageTypeOK
  <2>3. StorageTypeOK'
    BY <1>0, <2>1, <2>2 DEF RemoveEntry, StorageTypeOK
  <2>4. /\ Cardinality(DOMAIN ratings') <= Cardinality(DOMAIN ratings)
        /\ Cardinality(DOMAIN ratings) \in Nat /\ Cardinality(DOMAIN ratings') \in Nat
    BY <1>0, <2>2, EntryMapsDomain, FS_Subset, FS_CardinalityType DEF StorageTypeOK
  <2>5. StorageBounded'
    BY <1>0, <2>1, <2>4, StorageAssumption DEF RemoveEntry, StorageBounded
  <2>6. QED
    BY <2>3, <2>5 DEF StorageInv
<1>5. CASE StorageTick
  <2>1. StorageTypeOK'
    BY <1>0, <1>5, StorageAssumption DEF StorageTick, StorageTypeOK
  <2>2. StorageBounded'
    BY <1>0, <1>5 DEF StorageTick, StorageBounded
  <2>3. QED
    BY <2>1, <2>2 DEF StorageInv
<1>6. CASE UNCHANGED storageVars
  BY <1>0, <1>6 DEF storageVars, StorageInv, StorageTypeOK, StorageBounded
<1>7. QED
  BY <1>1, <1>2, <1>3, <1>4, <1>5, <1>6 DEF StorageNext

THEOREM StorageInvariant == StorageSpec => []StorageInv
<1>1. QED
  BY StorageStart, StorageStep, PTL DEF StorageSpec

\* However many threads store and remove entries, the storage is over its limit only
\* while one of them has yet to clean up.
THEOREM StorageStaysBounded == StorageSpec => []StorageBounded
<1>1. StorageInv => StorageBounded
  BY DEF StorageInv
<1>2. QED
  BY <1>1, StorageInvariant, PTL

(***************************************************************************)
(* Wait times.                                                             *)
(***************************************************************************)

Below == {s \in Nat \X Nat : s[1] < s[2]}

\* The numbers are well founded, and so a set of them has a least one.
LEMMA LeastNumber ==
    ASSUME NEW T, T \subseteq Nat, T # {}
    PROVE  \E m \in T : \A k \in T : m <= k
<1>1. OpToRel(<, Nat) = Below
  BY DEF OpToRel, Below
<1>2. IsWellFoundedOn(Below, Nat)
  BY <1>1, NatLessThanWellFounded, Zenon
<1>3. PICK m \in T : \A k \in T : <<k, m>> \notin Below
  BY <1>2, WFMin
<1>4. ASSUME NEW k \in T PROVE m <= k
  <2>1. m \in Nat /\ k \in Nat /\ <<k, m>> \notin Below
    BY <1>3
  <2>2. QED
    BY <2>1 DEF Below
<1>5. QED
  BY <1>3, <1>4

\* Every number has a whole square root: it is the least whose successor is too large.
LEMMA SquareRootProperties ==
    ASSUME NEW x \in Nat
    PROVE  /\ SquareRoot(x) \in Nat
           /\ SquareRoot(x) * SquareRoot(x) <= x
           /\ x < (SquareRoot(x) + 1) * (SquareRoot(x) + 1)
<1> DEFINE T == {n \in Nat : x < (n + 1) * (n + 1)}
<1>1. x \in T
  <2>1. (x + 1) * (x + 1) = x * x + x + x + 1 /\ x * x \in Nat
    OBVIOUS
  <2>2. x < (x + 1) * (x + 1)
    BY <2>1
  <2>3. QED
    BY <2>2
<1>2. PICK m \in T : \A k \in T : m <= k
  BY <1>1, LeastNumber
<1>3. m \in Nat /\ x < (m + 1) * (m + 1) /\ m <= x
  BY <1>1, <1>2
<1>4. m * m <= x
  <2>1. CASE m = 0
    BY <2>1
  <2>2. CASE m > 0
    <3>1. m - 1 \in Nat /\ m - 1 \notin T
      BY <1>2, <1>3, <2>2
    <3>2. ~(x < ((m - 1) + 1) * ((m - 1) + 1))
      BY <3>1
    <3>3. (m - 1) + 1 = m /\ m * m \in Nat
      BY <1>3
    <3>4. ~(x < m * m)
      BY <3>2, <3>3, Zenon
    <3>5. QED
      BY <3>3, <3>4
  <2>3. QED
    BY <1>3, <2>1, <2>2
<1>5. m \in 0..x
  BY <1>3
<1>6. \E r \in 0..x : r * r <= x /\ x < (r + 1) * (r + 1)
  BY <1>3, <1>4, <1>5
<1>7. /\ SquareRoot(x) \in 0..x
      /\ SquareRoot(x) * SquareRoot(x) <= x
      /\ x < (SquareRoot(x) + 1) * (SquareRoot(x) + 1)
  BY <1>6, Zenon DEF SquareRoot
<1>8. QED
  BY <1>7

\* The statistics and the configuration, whatever was recorded and configured.
WaitInv ==
    /\ \A k \in DOMAIN waits : waits[k] \in WaitStats
    /\ config \in WaitTimeConfig /\ ValidWaitConfig(config)
    /\ moment \in 0..WaitHorizon

LEMMA SampleAdded ==
    ASSUME moment \in 0..WaitHorizon, NEW s \in WaitStats, NEW x \in Sample
    PROVE  WithSample(s, x) \in WaitStats
<1>1. x \in Nat /\ s.sample_count \in Nat /\ s.sum_seconds \in Nat /\ s.sum_squared_seconds \in Nat
  BY WaitTimeAssumption DEF WaitStats
<1>2. PICK a \in Nat, b \in Nat, c \in Nat :
          a = s.sample_count + 1 /\ b = s.sum_seconds + x /\ c = s.sum_squared_seconds + x * x
  <2>1. x * x \in Nat
    BY <1>1
  <2>2. QED
    BY <1>1, <2>1
<1>3. WithSample(s, x) = [s EXCEPT !.sample_count = a, !.sum_seconds = b,
                                   !.sum_squared_seconds = c, !.last_updated = moment]
  BY <1>2 DEF WithSample
<1>4. QED
  BY <1>3 DEF WaitStats

\* Every operation keeps WaitInv.
LEMMA WaitStep == WaitInv /\ [WaitNext]_waitVars => WaitInv'
<1> SUFFICES ASSUME WaitInv, [WaitNext]_waitVars PROVE WaitInv'
  OBVIOUS
<1>1. ASSUME NEW k \in StatsKey, NEW x \in Sample, RecordWait(k, x) PROVE WaitInv'
  <2>1. NoSamples \in WaitStats
    BY WaitTimeAssumption DEF NoSamples, WaitStats
  <2> DEFINE old == IF k \in DOMAIN waits THEN waits[k] ELSE NoSamples
  <2>2. old \in WaitStats
    BY <2>1 DEF WaitInv
  <2>3. WithSample(old, x) \in WaitStats
    BY <2>2, SampleAdded DEF WaitInv
  <2>4. waits' = [c \in DOMAIN waits \cup {k} |-> IF c # k THEN waits[c] ELSE WithSample(old, x)]
    BY <1>1 DEF RecordWait
  <2> HIDE DEF old
  <2>5. \A c \in DOMAIN waits' : waits'[c] \in WaitStats
    BY <2>3, <2>4 DEF WaitInv
  <2>6. QED
    BY <1>1, <2>5 DEF RecordWait, WaitInv
<1>2. ASSUME config' = config, moment' = moment,
             NEW S, S \subseteq DOMAIN waits, waits' = Restrict(waits, S)
      PROVE  WaitInv'
  BY <1>2 DEF WaitInv, Restrict
<1>3. ASSUME NEW k \in StatsKey, ClearWaits(k) PROVE WaitInv'
  BY <1>2, <1>3 DEF ClearWaits
<1>4. CASE TrimWaits
  <2>1. CASE waits' = waits
    BY <1>4, <2>1 DEF TrimWaits, WaitInv
  <2>2. ASSUME NEW V, waits' = Restrict(waits, DOMAIN waits \ V) PROVE WaitInv'
    BY <1>2, <1>4, <2>2 DEF TrimWaits
  <2>3. QED
    BY <1>4, <2>1, <2>2 DEF TrimWaits
<1>5. ASSUME NEW c \in WaitConfigs, UpdateWaitConfig(c) PROVE WaitInv'
  BY <1>5, WaitTimeAssumption DEF UpdateWaitConfig, WaitInv
<1>6. CASE WaitTick
  BY <1>6, WaitTimeAssumption DEF WaitTick, WaitInv
<1>7. CASE UNCHANGED waitVars
  BY <1>7 DEF waitVars, WaitInv
<1>8. QED
  BY <1>1, <1>3, <1>4, <1>5, <1>6, <1>7 DEF WaitNext

\* The estimate from usable statistics is a number.
LEMMA TargetIsNumber ==
    ASSUME config \in WaitTimeConfig, ValidWaitConfig(config), NEW s \in WaitStats, Usable(s)
    PROVE  TargetWait(s) \in Int
<1>1. /\ s.sample_count \in Nat /\ s.sum_seconds \in Nat /\ s.sum_squared_seconds \in Nat
      /\ config.std_dev_multiplier \in Int
      /\ config.min_samples_for_dynamic \in Nat /\ config.min_samples_for_dynamic > 0
      /\ s.sample_count >= config.min_samples_for_dynamic
  BY DEF WaitStats, WaitTimeConfig, ValidWaitConfig, Usable
<1>2. Spread(s) \in Nat
  <2> DEFINE variance == s.sample_count * s.sum_squared_seconds - s.sum_seconds * s.sum_seconds
  <2>1. variance \in Int
    BY <1>1
  <2>2. Spread(s) = IF s.sample_count <= 1 \/ variance < 0 THEN 0 ELSE SquareRoot(variance)
    BY DEF Spread
  <2> HIDE DEF variance
  <2>3. ~(variance < 0) => SquareRoot(variance) \in Nat
    BY <2>1, SquareRootProperties
  <2>4. QED
    BY <2>2, <2>3
<1>3. 100 * s.sample_count \in Nat \ {0}
  BY <1>1
<1>4. 100 * s.sum_seconds + config.std_dev_multiplier * Spread(s) \in Int
  BY <1>1, <1>2
<1>5. QED
  BY <1>3, <1>4 DEF TargetWait

\* Whatever was recorded, cleared, evicted and configured, in any order, and however
\* old it is: the wait that is answered lies within the bounds configured now.
THEOREM WaitsStayWithinBounds == WaitSpec => []WaitWithinBounds
<1>1. WaitInit => WaitInv
  BY WaitTimeAssumption DEF WaitInit, WaitInv
<1>2. WaitInv => WaitWithinBounds
  <2> SUFFICES ASSUME WaitInv, NEW k \in StatsKey
               PROVE  WaitTimeFor(k) \in config.min_wait_seconds..config.max_wait_seconds
    BY DEF WaitWithinBounds
  <2>1. /\ config.min_wait_seconds \in Nat /\ config.max_wait_seconds \in Nat
        /\ config.min_wait_seconds < config.max_wait_seconds
        /\ config.default_wait_seconds \in config.min_wait_seconds..config.max_wait_seconds
    BY DEF WaitInv, WaitTimeConfig, ValidWaitConfig
  <2>2. CASE k \in DOMAIN waits /\ Usable(waits[k])
    <3>1. PICK t \in Int : t = TargetWait(waits[k])
      BY <2>2, TargetIsNumber DEF WaitInv
    <3>2. Clamped(t) \in config.min_wait_seconds..config.max_wait_seconds
      BY <2>1 DEF Clamped
    <3>3. QED
      BY <2>2, <3>1, <3>2 DEF WaitTimeFor
  <2>3. CASE ~(k \in DOMAIN waits /\ Usable(waits[k]))
    BY <2>1, <2>3 DEF WaitTimeFor
  <2>4. QED
    BY <2>2, <2>3
<1>3. QED
  BY <1>1, <1>2, WaitStep, PTL DEF WaitSpec
=============================================================================
