---------------------------- MODULE RatingStorage ----------------------------
(***************************************************************************)
(* InMemoryRatingStorage (src/rating/storage.rs): a map of rating entries, *)
(* bounded by evicting the entries that were updated longest ago.  Several *)
(* threads may call it; each method takes the lock on its own, and storing *)
(* takes it twice, to insert and to clean up.  What an entry says of the   *)
(* player is left out: an entry is the time of its last update.            *)
(***************************************************************************)
EXTENDS Naturals, FiniteSets, Functions

CONSTANTS
    RatedPlayer,
    MaxEntries,
    Rater,           \* the threads that use the storage
    StorageHorizon   \* the last moment of a behaviour: a bound

ASSUME StorageAssumption ==
    /\ IsFiniteSet(RatedPlayer)
    /\ MaxEntries \in Nat
    /\ StorageHorizon \in Nat

VARIABLES
    ratings,     \* ratings: [the players that have an entry -> Entry]
    drafts,      \* the entries a thread has in hand
    cleaning,    \* the threads between the insertion and cleanup_if_needed
    today        \* the clock

storageVars == <<ratings, drafts, cleaning, today>>

\* RatingEntry, by its last_updated.
Entry == 0..StorageHorizon

NoEntries == [p \in {} |-> 0]
EntryMaps == UNION {[S -> Entry] : S \in SUBSET RatedPlayer}

StorageInit ==
    /\ ratings = NoEntries
    /\ drafts = [c \in Rater |-> NoEntries]
    /\ cleaning = {}
    /\ today = 0

\* A thread makes the entries of some players: it updates copies of those it read
\* (RatingEntry::update_rating) or makes new ones (RatingEntry::new).
PrepareEntries(c, S) ==
    /\ c \notin cleaning /\ drafts[c] = NoEntries
    /\ drafts' = [drafts EXCEPT ![c] = [p \in S |-> today]]
    /\ UNCHANGED <<ratings, cleaning, today>>

\* The map with the entries of new, which replace those it has.
WithEntries(new) ==
    [p \in DOMAIN new \cup DOMAIN ratings |->
        IF p \in DOMAIN new THEN new[p] ELSE ratings[p]]

StoreEntries_Unchecked(c) ==
    /\ drafts[c] # NoEntries
    /\ ratings' = WithEntries(drafts[c])
    /\ drafts' = [drafts EXCEPT ![c] = NoEntries]
    /\ UNCHANGED <<cleaning, today>>

\* store_rating or store_ratings, up to the release of the lock.
StoreEntries(c) ==
    /\ drafts[c] # NoEntries
    /\ ratings' = WithEntries(drafts[c])
    /\ drafts' = [drafts EXCEPT ![c] = NoEntries]
    /\ cleaning' = cleaning \cup {c}
    /\ UNCHANGED today

\* The oldest entries beyond max_entries; among equals the order of the map decides.
Surplus(V) ==
    /\ V \subseteq DOMAIN ratings
    /\ Cardinality(V) = Cardinality(DOMAIN ratings) - MaxEntries
    /\ \A v \in V, p \in DOMAIN ratings \ V :
        ratings[v] <= ratings[p]

\* cleanup_if_needed
CleanupEntries(c) ==
    /\ c \in cleaning
    /\ cleaning' = cleaning \ {c}
    /\ IF Cardinality(DOMAIN ratings) > MaxEntries
       THEN \E V \in SUBSET DOMAIN ratings :
                Surplus(V) /\ ratings' = Restrict(ratings, DOMAIN ratings \ V)
       ELSE UNCHANGED ratings
    /\ UNCHANGED <<drafts, today>>

\* remove_rating
RemoveEntry(p) ==
    /\ p \in DOMAIN ratings
    /\ ratings' = Restrict(ratings, DOMAIN ratings \ {p})
    /\ UNCHANGED <<drafts, cleaning, today>>

StorageTick ==
    /\ today < StorageHorizon
    /\ today' = today + 1
    /\ UNCHANGED <<ratings, drafts, cleaning>>

StorageNext ==
    \/ \E c \in Rater : \/ \E S \in SUBSET RatedPlayer \ {{}} : PrepareEntries(c, S)
                        \/ StoreEntries(c) \/ CleanupEntries(c)
    \/ \E p \in RatedPlayer : RemoveEntry(p)
    \/ StorageTick

StorageSpec == StorageInit /\ [][StorageNext]_storageVars
-----------------------------------------------------------------------------
StorageTypeOK ==
    /\ ratings \in EntryMaps
    /\ drafts \in [Rater -> EntryMaps]
    /\ cleaning \subseteq Rater
    /\ today \in 0..StorageHorizon

\* The storage is over its limit only while some thread has stored and not yet cleaned
\* up, whichever of the threads cleans up after whom.
StorageBounded ==
    Cardinality(DOMAIN ratings) > MaxEntries => cleaning # {}
=============================================================================
