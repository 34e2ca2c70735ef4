---------------------------- MODULE LobbyProofs ----------------------------
(***************************************************************************)
(* Lemmas about the operators of Lobby, for every configuration that       *)
(* validate_config accepts and every set of players.                       *)
(***************************************************************************)
EXTENDS Lobby, SequenceTheorems, TLAPS

\* What the lemmas need of a lobby; the records of the modules that use them
\* have more fields.
IsLobby(l) ==
    /\ l.type \in LobbyType
    /\ l.state \in LobbyState
    /\ l.queue \in Seq(Player)

\* The entries of the better priority come first: InOrder with its boundary.
Sorted(l) ==
    \E k \in 0..Len(l.queue) : \A i \in 1..Len(l.queue) :
        i <= k <=> Priority(l.type, l.queue[i]) = 1
-----------------------------------------------------------------------------
(***************************************************************************)
(* Sequences.                                                              *)
(***************************************************************************)

\* The two parts of a concatenation.
LEMMA ConcatParts ==
    ASSUME NEW S, NEW s1 \in Seq(S), NEW s2 \in Seq(S)
    PROVE  /\ s1 \o s2 \in Seq(S)
           /\ Len(s1 \o s2) = Len(s1) + Len(s2)
           /\ \A i \in 1..Len(s1) : (s1 \o s2)[i] = s1[i]
           /\ \A i \in 1..Len(s2) : (s1 \o s2)[Len(s1)+i] = s2[i]
<1>1. Len(s1) \in Nat /\ Len(s2) \in Nat
  BY LenProperties
<1>2. /\ s1 \o s2 \in Seq(S)
      /\ Len(s1 \o s2) = Len(s1) + Len(s2)
      /\ \A i \in 1..(Len(s1) + Len(s2)) : (s1 \o s2)[i] = IF i <= Len(s1) THEN s1[i] ELSE s2[i - Len(s1)]
  BY ConcatProperties
<1>3. ASSUME NEW i \in 1..Len(s1) PROVE (s1 \o s2)[i] = s1[i]
  BY <1>1, <1>2
<1>4. ASSUME NEW i \in 1..Len(s2) PROVE (s1 \o s2)[Len(s1)+i] = s2[i]
  <2>1. Len(s1)+i \in 1..(Len(s1) + Len(s2)) /\ ~(Len(s1)+i <= Len(s1)) /\ (Len(s1)+i)-Len(s1) = i
    BY <1>1
  <2>2. QED
    BY <1>2, <2>1
<1>5. QED
  BY <1>2, <1>3, <1>4

\* What push_back followed by the sort does to the places of a queue: the new
\* entry takes place i and those from there on move back.
LEMMA InsertProperties ==
    ASSUME NEW q \in Seq(Player), NEW i \in 1..(Len(q)+1), NEW p \in Player
    PROVE  /\ InsertAt(q, i, p) \in Seq(Player)
           /\ Len(InsertAt(q, i, p)) = Len(q) + 1
           /\ \A x \in 1..(i-1) : InsertAt(q, i, p)[x] = q[x]
           /\ InsertAt(q, i, p)[i] = p
           /\ \A x \in i..Len(q) : InsertAt(q, i, p)[x+1] = q[x]
<1> DEFINE n == Len(q)
           a == SubSeq(q, 1, i-1)
           b == <<p>>
           c == SubSeq(q, i, n)
           d == a \o b
           r == d \o c
<1>1. n \in Nat /\ i \in Nat /\ 1 <= i /\ i <= n + 1 /\ \A x \in 1..n : q[x] \in Player
  BY ElementOfSeq, LenProperties
<1>2. /\ a \in Seq(Player)
      /\ Len(a) = i-1
      /\ \A x \in 1..(i-1) : a[x] = q[x]
  BY <1>1, SubSeqProperties
<1>3. /\ c \in Seq(Player)
      /\ Len(c) = n+1-i
      /\ \A x \in 1..(n+1-i) : c[x] = q[i+x-1]
  BY <1>1, SubSeqProperties
<1>4. b \in Seq(Player) /\ Len(b) = 1 /\ b[1] = p
  OBVIOUS
<1>5. InsertAt(q, i, p) = r
  BY DEF InsertAt
<1> HIDE DEF a, b, c, n
<1>6. /\ d \in Seq(Player)
      /\ Len(d) = Len(a) + Len(b)
      /\ \A x \in 1..Len(a) : d[x] = a[x]
      /\ \A x \in 1..Len(b) : d[Len(a)+x] = b[x]
  <2>1. a \in Seq(Player) /\ b \in Seq(Player)
    BY <1>2, <1>4
  <2>2. QED
    BY <2>1, ConcatParts
<1> HIDE DEF d
<1>7. /\ r \in Seq(Player)
      /\ Len(r) = Len(d) + Len(c)
      /\ \A x \in 1..Len(d) : r[x] = d[x]
      /\ \A x \in 1..Len(c) : r[Len(d)+x] = c[x]
  <2>1. d \in Seq(Player) /\ c \in Seq(Player)
    BY <1>3, <1>6
  <2>2. QED
    BY <2>1, ConcatParts
<1> HIDE DEF r
<1>8. Len(d) = i /\ Len(r) = n + 1
  BY <1>1, <1>2, <1>3, <1>4, <1>6, <1>7
<1>9. \A x \in 1..(i-1) : r[x] = q[x]
  <2>1. \A x \in 1..(i-1) : x \in 1..i
    BY <1>1
  <2>2. QED
    BY <1>2, <1>6, <1>7, <1>8, <2>1
<1>10. r[i] = p
  <2>1. d[i] = p
    BY <1>1, <1>2, <1>4, <1>6
  <2>2. i \in 1..i
    BY <1>1
  <2>3. QED
    BY <1>7, <1>8, <2>1, <2>2
<1>11. ASSUME NEW x \in i..n PROVE r[x+1] = q[x]
  <2> DEFINE y == x + 1 - i
  <2>1. y \in 1..(n+1-i) /\ i + y = x + 1 /\ i + y - 1 = x
    BY <1>1
  <2> HIDE DEF y
  <2>2. r[i+y] = c[y]
    BY <1>3, <1>7, <1>8, <2>1
  <2>3. c[y] = q[i+y-1]
    BY <1>3, <2>1
  <2>4. QED
    BY <2>1, <2>2, <2>3
<1>12. QED
  BY <1>5, <1>7, <1>8, <1>9, <1>10, <1>11 DEF n

\* What retain does to the places of a queue that holds the player once.
LEMMA RemoveProperties ==
    ASSUME NEW q \in Seq(Player), NEW i \in 1..Len(q)
    PROVE  /\ RemoveAt(q, i) \in Seq(Player)
           /\ Len(RemoveAt(q, i)) = Len(q) - 1
           /\ \A x \in 1..(i-1) : RemoveAt(q, i)[x] = q[x]
           /\ \A x \in i..(Len(q)-1) : RemoveAt(q, i)[x] = q[x+1]
<1> DEFINE n == Len(q)
           a == SubSeq(q, 1, i-1)
           c == SubSeq(q, i+1, n)
           r == a \o c
<1>1. n \in Nat /\ i \in Nat /\ 1 <= i /\ i <= n /\ \A x \in 1..n : q[x] \in Player
  BY ElementOfSeq, LenProperties
<1>2. /\ a \in Seq(Player)
      /\ Len(a) = i-1
      /\ \A x \in 1..(i-1) : a[x] = q[x]
  BY <1>1, SubSeqProperties
<1>3. /\ c \in Seq(Player)
      /\ Len(c) = n-i
      /\ \A x \in 1..(n-i) : c[x] = q[i+x]
  BY <1>1, SubSeqProperties
<1>4. RemoveAt(q, i) = r
  BY DEF RemoveAt
<1> HIDE DEF a, c, n
<1>5. /\ r \in Seq(Player)
      /\ Len(r) = Len(a) + Len(c)
      /\ \A x \in 1..Len(a) : r[x] = a[x]
      /\ \A x \in 1..Len(c) : r[Len(a)+x] = c[x]
  <2>1. a \in Seq(Player) /\ c \in Seq(Player)
    BY <1>2, <1>3
  <2>2. QED
    BY <2>1, ConcatParts
<1> HIDE DEF r
<1>6. \A x \in 1..(i-1) : r[x] = q[x]
  BY <1>2, <1>5
<1>7. ASSUME NEW x \in i..(n-1) PROVE r[x] = q[x+1]
  <2> DEFINE y == x - (i-1)
  <2>1. y \in 1..(n-i) /\ (i-1) + y = x /\ i + y = x + 1
    BY <1>1
  <2> HIDE DEF y
  <2>2. r[(i-1)+y] = c[y]
    BY <1>2, <1>3, <1>5, <2>1
  <2>3. c[y] = q[i+y]
    BY <1>3, <2>1
  <2>4. QED
    BY <2>1, <2>2, <2>3
<1>8. Len(r) = n - 1
  BY <1>1, <1>2, <1>3, <1>5
<1>9. QED
  BY <1>4, <1>5, <1>6, <1>7, <1>8 DEF n
-----------------------------------------------------------------------------
(***************************************************************************)
(* The configuration and the priorities.                                   *)
(***************************************************************************)

\* Every lobby has a capacity that validate_config accepts.
LEMMA CapacityType ==
    ASSUME NEW l, IsLobby(l)
    PROVE  Capacity(l) \in 1..MaxCapacity
  BY ConfigAssumption DEF IsLobby, Capacity, LobbyConfiguration

\* There are two priorities.
LEMMA PriorityType ==
    ASSUME NEW t, NEW p
    PROVE  Priority(t, p) \in {1, 2}
  BY DEF Priority

\* Sorted is the order get_active_players relies on.
LEMMA SortedInOrder ==
    ASSUME NEW l, IsLobby(l), Sorted(l)
    PROVE  InOrder(l)
<1>1. PICK k \in 0..Len(l.queue) : \A i \in 1..Len(l.queue) :
              i <= k <=> Priority(l.type, l.queue[i]) = 1
  BY DEF Sorted
<1>2. \A i \in 1..Len(l.queue) : Priority(l.type, l.queue[i]) \in {1, 2}
  BY PriorityType
<1>3. Len(l.queue) \in Nat
  BY DEF IsLobby
<1>4. QED
  BY <1>1, <1>2, <1>3 DEF InOrder

\* In a sorted queue the place of a new entry exists, so CHOOSE finds it.
LEMMA InsertionPointProperties ==
    ASSUME NEW l, IsLobby(l), Sorted(l), NEW p
    PROVE  /\ InsertionPoint(l, p) \in 0..Len(l.queue)
           /\ \A i \in 1..Len(l.queue) :
                 i <= InsertionPoint(l, p)
                   <=> Priority(l.type, l.queue[i]) <= Priority(l.type, p)
<1> DEFINE Fits(k) == \A i \in 1..Len(l.queue) :
               i <= k <=> Priority(l.type, l.queue[i]) <= Priority(l.type, p)
<1>1. PICK k \in 0..Len(l.queue) : \A i \in 1..Len(l.queue) :
              i <= k <=> Priority(l.type, l.queue[i]) = 1
  BY DEF Sorted
<1>2. \A i \in 1..Len(l.queue) : Priority(l.type, l.queue[i]) \in {1, 2}
  BY PriorityType
<1>3. Len(l.queue) \in Nat
  BY DEF IsLobby
<1>4. CASE Priority(l.type, p) = 1
  <2>1. Fits(k)
    BY <1>1, <1>2, <1>4
  <2>2. QED
    BY <2>1 DEF InsertionPoint
<1>5. CASE Priority(l.type, p) = 2
  <2>1. Fits(Len(l.queue)) /\ Len(l.queue) \in 0..Len(l.queue)
    BY <1>2, <1>3, <1>5
  <2>2. QED
    BY <2>1 DEF InsertionPoint
<1>6. QED
  BY <1>4, <1>5, PriorityType
-----------------------------------------------------------------------------
(***************************************************************************)
(* The queue operations keep the order and the uniqueness of the entries.  *)
(***************************************************************************)

\* m has the queue of l with p entered behind the first k entries, which are
\* those of p's or a better priority; the others have moved by one.
EntersBehind(l, p, k, m) ==
    /\ m.queue \in Seq(Player)
    /\ Len(m.queue) = Len(l.queue) + 1
    /\ \A i \in 1..Len(l.queue) :
          i <= k <=> Priority(l.type, l.queue[i]) <= Priority(l.type, p)
    /\ m.queue[k+1] = p
    /\ \A i \in 1..(Len(l.queue) + 1) :
          \/ i \in 1..k /\ m.queue[i] = l.queue[i]
          \/ i = k+1 /\ m.queue[i] = p
          \/ i - 1 \in (k+1)..Len(l.queue) /\ m.queue[i] = l.queue[i-1]

\* m has the queue of l without its entry k.
LeavesFrom(l, k, m) ==
    /\ m.queue \in Seq(Player)
    /\ Len(m.queue) = Len(l.queue) - 1
    /\ \A i \in 1..(Len(l.queue) - 1) :
          \/ i \in 1..(k-1) /\ m.queue[i] = l.queue[i]
          \/ i \in k..(Len(l.queue) - 1) /\ i + 1 \in 1..Len(l.queue)
                /\ m.queue[i] = l.queue[i+1]

\* Two entries of m's queue stand in it as they do in l's.
InOldOrder(l, m, i, j) ==
    \E a, b \in 1..Len(l.queue) :
       a < b /\ m.queue[i] = l.queue[a] /\ m.queue[j] = l.queue[b]

\* The entries of m's queue stand in it as they do in l's, and p behind those
\* of its own or a better priority.
JoinsInOrder(l, p, m) ==
    \A i, j \in 1..Len(m.queue) : i < j =>
        \/ InOldOrder(l, m, i, j)
        \/ m.queue[j] = p /\ InQueue(l, m.queue[i])
        \/ /\ m.queue[i] = p
           /\ InQueue(l, m.queue[j])
           /\ Priority(l.type, p) < Priority(l.type, m.queue[j])

KeepsOrder(l, m) ==
    \A i, j \in 1..Len(m.queue) : i < j => InOldOrder(l, m, i, j)

\* Where the entries are after add_player's push_back and sort.
LEMMA EnqueuePositions ==
    ASSUME NEW l, IsLobby(l), Sorted(l), NEW p \in Player,
           NEW m, m.type = l.type, m.queue = Enqueue(l, p)
    PROVE  \E k \in 0..Len(l.queue) : EntersBehind(l, p, k, m)
<1> DEFINE k == InsertionPoint(l, p)
           n == Len(l.queue)
           old(i) == Priority(l.type, l.queue[i])
<1>1. n \in Nat /\ l.queue \in Seq(Player)
  BY DEF IsLobby
<1>2. /\ k \in Nat
      /\ k <= n
      /\ \A i \in 1..n : i <= k <=> old(i) <= Priority(l.type, p)
  BY <1>1, InsertionPointProperties
<1>3. m.queue = InsertAt(l.queue, k+1, p)
  BY DEF Enqueue
<1> HIDE DEF k
<1>4. /\ m.queue \in Seq(Player)
      /\ Len(m.queue) = n + 1
      /\ \A i \in 1..k : m.queue[i] = l.queue[i]
      /\ m.queue[k+1] = p
      /\ \A i \in (k+1)..n : m.queue[i+1] = l.queue[i]
  <2>1. PICK q \in Seq(Player) : q = l.queue
    BY <1>1
  <2>2. PICK i \in 1..(Len(q)+1) : i = k+1
    BY <1>1, <1>2, <2>1
  <2>3. m.queue = InsertAt(q, i, p)
    BY <1>3, <2>1, <2>2
  <2>4. /\ m.queue \in Seq(Player)
        /\ Len(m.queue) = Len(q) + 1
        /\ \A x \in 1..(i-1) : m.queue[x] = q[x]
        /\ m.queue[i] = p
        /\ \A x \in i..Len(q) : m.queue[x+1] = q[x]
    <3>1. /\ InsertAt(q, i, p) \in Seq(Player)
          /\ Len(InsertAt(q, i, p)) = Len(q) + 1
          /\ \A x \in 1..(i-1) : InsertAt(q, i, p)[x] = q[x]
          /\ InsertAt(q, i, p)[i] = p
          /\ \A x \in i..Len(q) : InsertAt(q, i, p)[x+1] = q[x]
      BY InsertProperties
    <3>2. QED
      BY <2>3, <3>1, Zenon
  <2>5. i - 1 = k
    BY <1>2, <2>2
  <2>6. QED
    BY <2>1, <2>2, <2>4, <2>5
<1>5. \A i \in 1..(n+1) :
         \/ i \in 1..k /\ m.queue[i] = l.queue[i]
         \/ i = k+1 /\ m.queue[i] = p
         \/ i - 1 \in (k+1)..n /\ m.queue[i] = l.queue[i-1]
  <2>1. \A i \in (k+2)..(n+1) : i - 1 \in (k+1)..n /\ (i-1) + 1 = i
    BY <1>1, <1>2
  <2>2. \A i \in 1..(n+1) : i \in 1..k \/ i = k+1 \/ i \in (k+2)..(n+1)
    BY <1>1, <1>2
  <2>3. QED
    BY <1>4, <2>1, <2>2
<1>6. k \in 0..n
  BY <1>1, <1>2
<1>7. EntersBehind(l, p, k, m)
  BY <1>2, <1>4, <1>5 DEF EntersBehind
<1>8. QED
  BY <1>6, <1>7

\* Who is queued after add_player, and behind whom.
LEMMA EnqueueOrder ==
    ASSUME NEW l, IsLobby(l), Sorted(l), NEW p \in Player,
           NEW m, m.type = l.type, m.queue = Enqueue(l, p)
    PROVE  /\ \A x : InQueue(m, x) <=> x = p \/ InQueue(l, x)
           /\ JoinsInOrder(l, p, m)
<1> DEFINE n == Len(l.queue)
<1>1. n \in Nat
  BY DEF IsLobby
<1>2. PICK k \in 0..n : EntersBehind(l, p, k, m)
  BY EnqueuePositions
<1>3. k \in Nat /\ k <= n
  BY <1>1
<1>4. Len(m.queue) = n + 1 /\ m.queue[k+1] = p
  BY <1>2 DEF EntersBehind
<1>5. \A i \in 1..(n+1) :
         \/ i \in 1..k /\ m.queue[i] = l.queue[i]
         \/ i = k+1 /\ m.queue[i] = p
         \/ i - 1 \in (k+1)..n /\ m.queue[i] = l.queue[i-1]
  BY <1>2 DEF EntersBehind
<1>6. \A i \in (k+1)..n : Priority(l.type, p) < Priority(l.type, l.queue[i])
  <2>1. \A i \in 1..n : i <= k <=> Priority(l.type, l.queue[i]) <= Priority(l.type, p)
    BY <1>2 DEF EntersBehind
  <2>2. \A i \in 1..n : Priority(l.type, l.queue[i]) \in {1, 2}
    BY PriorityType
  <2>3. Priority(l.type, p) \in {1, 2}
    BY PriorityType
  <2>4. QED
    BY <1>1, <1>3, <2>1, <2>2, <2>3
<1>7. ASSUME NEW x PROVE InQueue(m, x) <=> x = p \/ InQueue(l, x)
  <2>1. ASSUME InQueue(m, x) PROVE x = p \/ InQueue(l, x)
    <3>1. PICK i \in 1..(n+1) : m.queue[i] = x
      BY <1>4, <2>1 DEF InQueue
    <3>2. x = p \/ \E j \in 1..n : l.queue[j] = x
      BY <1>1, <1>3, <1>5, <3>1
    <3>3. QED
      BY <3>2 DEF InQueue
  <2>2. ASSUME x = p PROVE InQueue(m, x)
    <3>1. k + 1 \in 1..(n+1)
      BY <1>1, <1>3
    <3>2. QED
      BY <1>4, <2>2, <3>1 DEF InQueue
  <2>3. ASSUME InQueue(l, x) PROVE InQueue(m, x)
    <3>1. PICK j \in 1..n : l.queue[j] = x
      BY <2>3 DEF InQueue
    <3>2. CASE j <= k
      <4>1. j \in 1..(n+1) /\ m.queue[j] = l.queue[j]
        BY <1>1, <1>3, <1>5, <3>2
      <4>2. QED
        BY <1>4, <3>1, <4>1 DEF InQueue
    <3>3. CASE j > k
      <4>1. j + 1 \in 1..(n+1) /\ m.queue[j+1] = l.queue[j]
        BY <1>1, <1>3, <1>5, <3>3
      <4>2. QED
        BY <1>4, <3>1, <4>1 DEF InQueue
    <3>4. QED
      BY <1>1, <1>3, <3>2, <3>3
  <2>4. QED
    BY <2>1, <2>2, <2>3
<1>8. ASSUME NEW i \in 1..(n+1), NEW j \in 1..(n+1), i < j
      PROVE  \/ InOldOrder(l, m, i, j)
             \/ m.queue[j] = p /\ InQueue(l, m.queue[i])
             \/ /\ m.queue[i] = p
                /\ InQueue(l, m.queue[j])
                /\ Priority(l.type, p) < Priority(l.type, m.queue[j])
  <2>1. CASE j = k + 1
    <3>1. i \in 1..n /\ m.queue[i] = l.queue[i] /\ m.queue[j] = p
      BY <1>1, <1>3, <1>5, <1>8, <2>1
    <3>2. QED
      BY <3>1 DEF InQueue
  <2>2. CASE i = k + 1
    <3>1. j - 1 \in (k+1)..n /\ j - 1 \in 1..n /\ m.queue[j] = l.queue[j-1]
      BY <1>1, <1>3, <1>5, <1>8, <2>2
    <3>2. m.queue[i] = p
      BY <1>4, <2>2
    <3>3. QED
      BY <1>6, <3>1, <3>2 DEF InQueue
  <2>3. CASE j # k + 1 /\ i # k + 1
    <3>1. PICK a \in 1..n : m.queue[i] = l.queue[a] /\ a = IF i <= k THEN i ELSE i - 1
      BY <1>1, <1>3, <1>5, <2>3
    <3>2. PICK b \in 1..n : m.queue[j] = l.queue[b] /\ b = IF j <= k THEN j ELSE j - 1
      BY <1>1, <1>3, <1>5, <2>3
    <3>3. a < b
      BY <1>1, <1>3, <1>8, <2>3, <3>1, <3>2
    <3>4. QED
      BY <3>1, <3>2, <3>3 DEF InOldOrder
  <2>4. QED
    BY <2>1, <2>2, <2>3
<1>9. JoinsInOrder(l, p, m)
  BY <1>4, <1>8 DEF JoinsInOrder
<1>10. QED
  BY <1>7, <1>9

\* add_player's push_back and sort keep the order and the uniqueness of the ids.
LEMMA EnqueueProperties ==
    ASSUME NEW l, IsLobby(l), Sorted(l), NEW p \in Player,
           NEW m, m.type = l.type, m.queue = Enqueue(l, p)
    PROVE  /\ m.queue \in Seq(Player)
           /\ Len(m.queue) = Len(l.queue) + 1
           /\ Sorted(m)
           /\ QueuedOnce(l) /\ ~InQueue(l, p) => QueuedOnce(m)
<1> DEFINE n == Len(l.queue)
           old(i) == Priority(l.type, l.queue[i])
           new(i) == Priority(m.type, m.queue[i])
<1>1. n \in Nat /\ l.queue \in Seq(Player)
  BY DEF IsLobby
<1>2. PICK k \in 0..n : EntersBehind(l, p, k, m)
  BY EnqueuePositions
<1>3. k \in Nat /\ k <= n
  BY <1>1
<1>4. /\ m.queue \in Seq(Player)
      /\ Len(m.queue) = n + 1
      /\ \A i \in 1..n : i <= k <=> old(i) <= Priority(l.type, p)
      /\ m.queue[k+1] = p
      /\ \A i \in 1..(n+1) :
            \/ i \in 1..k /\ m.queue[i] = l.queue[i]
            \/ i = k+1 /\ m.queue[i] = p
            \/ i - 1 \in (k+1)..n /\ m.queue[i] = l.queue[i-1]
  BY <1>2 DEF EntersBehind
<1>5. /\ \A i \in 1..k : new(i) = old(i)
      /\ new(k+1) = Priority(l.type, p)
      /\ \A i \in (k+2)..(n+1) : new(i) = old(i-1)
  BY <1>1, <1>3, <1>4
<1>6. Sorted(m)
  <2>1. PICK j \in 0..n : \A i \in 1..n : i <= j <=> old(i) = 1
    BY DEF Sorted
  <2>2. \A i \in 1..n : old(i) \in {1, 2}
    BY PriorityType
  <2>3. j \in Nat /\ j <= n
    BY <1>1
  <2> HIDE DEF n, old, new
  <2>4. CASE Priority(l.type, p) = 1
    <3>1. \A i \in 1..n : i <= k <=> i <= j
      BY <1>4, <2>1, <2>2, <2>4
    <3>2. j = k
      BY <1>1, <1>3, <1>4, <2>3, <3>1
    <3>3. \A i \in 1..(n+1) : i <= k+1 <=> new(i) = 1
      BY <1>1, <1>3, <1>4, <1>5, <2>1, <2>4, <3>2
    <3>4. k+1 \in 0..(n+1)
      BY <1>1, <1>3, <1>4
    <3>5. QED
      BY <1>4, <3>3, <3>4 DEF Sorted, n, new
  <2>5. CASE Priority(l.type, p) = 2
    <3>1. k = n
      BY <1>1, <1>3, <1>4, <2>2, <2>5
    <3>2. \A i \in 1..(n+1) : i <= j <=> new(i) = 1
      BY <1>1, <1>5, <2>1, <2>3, <2>5, <3>1
    <3>3. j \in 0..(n+1)
      BY <1>1, <2>3
    <3>4. QED
      BY <1>4, <3>2, <3>3 DEF Sorted, n, new
  <2>6. QED
    BY <2>4, <2>5, PriorityType
<1>7. ASSUME QueuedOnce(l), ~InQueue(l, p) PROVE QueuedOnce(m)
  <2>1. ASSUME NEW i \in 1..Len(m.queue), NEW j \in 1..Len(m.queue), i < j
        PROVE  m.queue[i] # m.queue[j]
    <3>1. \/ InOldOrder(l, m, i, j)
          \/ m.queue[j] = p /\ InQueue(l, m.queue[i])
          \/ m.queue[i] = p /\ InQueue(l, m.queue[j])
      BY <2>1, EnqueueOrder DEF JoinsInOrder
    <3>2. ASSUME InOldOrder(l, m, i, j) PROVE m.queue[i] # m.queue[j]
      BY <1>7, <3>2 DEF InOldOrder, QueuedOnce
    <3>3. QED
      BY <1>7, <3>1, <3>2
  <2>2. \A i, j \in 1..(n+1) : i = j \/ i < j \/ j < i
    BY <1>1
  <2>3. QED
    BY <1>4, <2>1, <2>2 DEF QueuedOnce
<1>8. QED
  BY <1>4, <1>6, <1>7

\* Where the entries are after remove_player's retain.
LEMMA DequeuePositions ==
    ASSUME NEW l, IsLobby(l), NEW p, InQueue(l, p),
           NEW m, m.type = l.type, m.queue = Dequeue(l, p)
    PROVE  \E k \in 1..Len(l.queue) : l.queue[k] = p /\ LeavesFrom(l, k, m)
<1> DEFINE k == CHOOSE i \in 1..Len(l.queue) : l.queue[i] = p
           n == Len(l.queue)
<1>1. n \in Nat /\ l.queue \in Seq(Player)
  BY DEF IsLobby
<1>2. k \in Nat /\ 1 <= k /\ k <= n /\ l.queue[k] = p
  BY <1>1 DEF InQueue
<1>3. m.queue = RemoveAt(l.queue, k)
  BY DEF Dequeue
<1> HIDE DEF k
<1>4. /\ m.queue \in Seq(Player)
      /\ Len(m.queue) = n - 1
      /\ \A i \in 1..(k-1) : m.queue[i] = l.queue[i]
      /\ \A i \in k..(n-1) : m.queue[i] = l.queue[i+1]
  <2>1. k \in 1..n
    BY <1>1, <1>2
  <2>2. QED
    BY <1>1, <1>3, <2>1, RemoveProperties
<1>5. \A i \in 1..(n-1) :
         \/ i \in 1..(k-1) /\ m.queue[i] = l.queue[i]
         \/ i \in k..(n-1) /\ i + 1 \in 1..n /\ m.queue[i] = l.queue[i+1]
  BY <1>1, <1>2, <1>4
<1>6. k \in 1..n
  BY <1>1, <1>2
<1>7. LeavesFrom(l, k, m)
  BY <1>4, <1>5 DEF LeavesFrom
<1>8. QED
  BY <1>2, <1>6, <1>7

\* Who is queued after remove_player; the others keep their order.
LEMMA DequeueOrder ==
    ASSUME NEW l, IsLobby(l), NEW p, InQueue(l, p),
           NEW m, m.type = l.type, m.queue = Dequeue(l, p)
    PROVE  /\ \A x : InQueue(m, x) => InQueue(l, x)
           /\ \A x : x # p /\ InQueue(l, x) => InQueue(m, x)
           /\ QueuedOnce(l) => ~InQueue(m, p)
           /\ KeepsOrder(l, m)
<1> DEFINE n == Len(l.queue)
<1>1. n \in Nat
  BY DEF IsLobby
<1>2. PICK k \in 1..n : l.queue[k] = p /\ LeavesFrom(l, k, m)
  BY DequeuePositions
<1>3. k \in Nat /\ 1 <= k /\ k <= n
  BY <1>1
<1>4. Len(m.queue) = n - 1
  BY <1>2 DEF LeavesFrom
<1>5. \A i \in 1..(n-1) :
         \/ i \in 1..(k-1) /\ m.queue[i] = l.queue[i]
         \/ i \in k..(n-1) /\ i + 1 \in 1..n /\ m.queue[i] = l.queue[i+1]
  BY <1>2 DEF LeavesFrom
<1>6. \A x : InQueue(m, x) => InQueue(l, x)
  <2>1. \A i \in 1..(n-1) : \E j \in 1..n : l.queue[j] = m.queue[i]
    BY <1>1, <1>3, <1>5
  <2>2. QED
    BY <1>4, <2>1 DEF InQueue
<1>7. ASSUME NEW x, x # p, InQueue(l, x) PROVE InQueue(m, x)
  <2>1. PICK j \in 1..n : l.queue[j] = x
    BY <1>7 DEF InQueue
  <2>2. j # k
    BY <1>2, <1>7, <2>1
  <2>3. CASE j < k
    <3>1. j \in 1..(n-1) /\ m.queue[j] = l.queue[j]
      BY <1>1, <1>3, <1>5, <2>3
    <3>2. QED
      BY <1>4, <2>1, <3>1 DEF InQueue
  <2>4. CASE j > k
    <3>1. j - 1 \in 1..(n-1) /\ (j - 1) + 1 = j
      BY <1>1, <1>3, <2>4
    <3>2. m.queue[j-1] = l.queue[j]
      BY <1>1, <1>3, <1>5, <2>4, <3>1
    <3>3. QED
      BY <1>4, <2>1, <3>1, <3>2 DEF InQueue
  <2>5. QED
    BY <1>1, <1>3, <2>2, <2>3, <2>4
<1>8. ASSUME QueuedOnce(l) PROVE ~InQueue(m, p)
  <2>1. \A i \in 1..n : l.queue[i] = p => i = k
    BY <1>2, <1>8 DEF QueuedOnce
  <2>2. \A i \in 1..(n-1) : m.queue[i] # p
    BY <1>1, <1>3, <1>5, <2>1
  <2>3. QED
    BY <1>4, <2>2 DEF InQueue
<1>9. ASSUME NEW i \in 1..(n-1), NEW j \in 1..(n-1), i < j
      PROVE  InOldOrder(l, m, i, j)
  <2>1. PICK a \in 1..n : m.queue[i] = l.queue[a] /\ a = IF i < k THEN i ELSE i + 1
    BY <1>1, <1>3, <1>5
  <2>2. PICK b \in 1..n : m.queue[j] = l.queue[b] /\ b = IF j < k THEN j ELSE j + 1
    BY <1>1, <1>3, <1>5
  <2>3. a < b
    BY <1>1, <1>3, <1>9, <2>1, <2>2
  <2>4. QED
    BY <2>1, <2>2, <2>3 DEF InOldOrder
<1>10. KeepsOrder(l, m)
  BY <1>4, <1>9 DEF KeepsOrder
<1>11. QED
  BY <1>6, <1>7, <1>8, <1>10

\* remove_player's retain does too, and brings nobody new.
LEMMA DequeueProperties ==
    ASSUME NEW l, IsLobby(l), NEW p, InQueue(l, p),
           NEW m, m.type = l.type, m.queue = Dequeue(l, p)
    PROVE  /\ m.queue \in Seq(Player)
           /\ Len(m.queue) = Len(l.queue) - 1
           /\ \A i \in 1..Len(m.queue) : InQueue(l, m.queue[i])
           /\ Sorted(l) => Sorted(m)
           /\ QueuedOnce(l) => QueuedOnce(m)
<1> DEFINE n == Len(l.queue)
           old(i) == Priority(l.type, l.queue[i])
           new(i) == Priority(m.type, m.queue[i])
<1>1. n \in Nat /\ l.queue \in Seq(Player)
  BY DEF IsLobby
<1>2. PICK k \in 1..n : l.queue[k] = p /\ LeavesFrom(l, k, m)
  BY DequeuePositions
<1>3. k \in Nat /\ 1 <= k /\ k <= n
  BY <1>1
<1>4. /\ m.queue \in Seq(Player)
      /\ Len(m.queue) = n - 1
  BY <1>2 DEF LeavesFrom
<1>5. \A i \in 1..(n-1) :
         \/ i \in 1..(k-1) /\ m.queue[i] = l.queue[i]
         \/ i \in k..(n-1) /\ i + 1 \in 1..n /\ m.queue[i] = l.queue[i+1]
  BY <1>2 DEF LeavesFrom
<1>6. \A i \in 1..Len(m.queue) : InQueue(l, m.queue[i])
  <2>1. ASSUME NEW i \in 1..(n-1) PROVE \E j \in 1..n : l.queue[j] = m.queue[i]
    BY <1>1, <1>3, <1>5
  <2>2. QED
    BY <1>4, <2>1 DEF InQueue
<1>7. ASSUME Sorted(l) PROVE Sorted(m)
  <2>1. PICK j \in 0..n : \A i \in 1..n : i <= j <=> old(i) = 1
    BY <1>7 DEF Sorted
  <2>2. j \in Nat /\ j <= n
    BY <1>1
  <2>3. \A i \in 1..(n-1) :
           \/ i \in 1..(k-1) /\ new(i) = old(i)
           \/ i \in k..(n-1) /\ new(i) = old(i+1)
    BY <1>5
  <2> HIDE DEF n, old, new
  <2>4. CASE k <= j
    <3>1. \A i \in 1..(n-1) : i <= j - 1 <=> new(i) = 1
      BY <1>1, <1>3, <2>1, <2>2, <2>3, <2>4
    <3>2. j - 1 \in 0..(n-1)
      BY <1>1, <1>3, <2>2, <2>4
    <3>3. QED
      BY <1>4, <3>1, <3>2 DEF Sorted, n, new
  <2>5. CASE k > j
    <3>1. \A i \in 1..(n-1) : i <= j <=> new(i) = 1
      BY <1>1, <1>3, <2>1, <2>2, <2>3, <2>5
    <3>2. j \in 0..(n-1)
      BY <1>1, <1>3, <2>2, <2>5
    <3>3. QED
      BY <1>4, <3>1, <3>2 DEF Sorted, n, new
  <2>6. QED
    BY <1>3, <2>2, <2>4, <2>5
<1>8. ASSUME QueuedOnce(l) PROVE QueuedOnce(m)
  <2>1. ASSUME NEW i \in 1..Len(m.queue), NEW j \in 1..Len(m.queue), i < j
        PROVE  m.queue[i] # m.queue[j]
    <3>1. InOldOrder(l, m, i, j)
      BY <2>1, DequeueOrder DEF KeepsOrder
    <3>2. QED
      BY <1>8, <3>1 DEF InOldOrder, QueuedOnce
  <2>2. \A i, j \in 1..(n-1) : i = j \/ i < j \/ j < i
    BY <1>1
  <2>3. QED
    BY <1>4, <2>1, <2>2 DEF QueuedOnce
<1>9. QED
  BY <1>4, <1>6, <1>7, <1>8

-----------------------------------------------------------------------------
(***************************************************************************)
(* The active players.                                                     *)
(***************************************************************************)

\* get_active_players returns at most capacity queued players.
LEMMA ActivePlayersProperties ==
    ASSUME NEW l, IsLobby(l)
    PROVE  /\ ActivePlayers(l) \in Seq(Player)
           /\ Len(ActivePlayers(l)) <= Len(l.queue)
           /\ Len(ActivePlayers(l)) <= Capacity(l)
           /\ IsFull(l) => Len(ActivePlayers(l)) = Capacity(l)
           /\ \A i \in 1..Len(ActivePlayers(l)) : ActivePlayers(l)[i] = l.queue[i]
<1>1. Capacity(l) \in Nat \ {0} /\ Len(l.queue) \in Nat /\ l.queue \in Seq(Player)
  BY CapacityType DEF IsLobby, MaxCapacity
<1>2. CASE IsFull(l)
  BY <1>1, <1>2 DEF ActivePlayers, IsFull
<1>3. CASE ~IsFull(l)
  BY <1>1, <1>3 DEF ActivePlayers, IsFull
<1>4. QED
  BY <1>2, <1>3

\* Whether a game could start depends on the type and the queue only.
LEMMA SameQueue ==
    ASSUME NEW l, NEW m, l.type = m.type, l.queue = m.queue
    PROVE  /\ Startable(l) <=> Startable(m)
           /\ Sorted(l) <=> Sorted(m)
<1>1. IsFull(l) <=> IsFull(m)
  BY DEF IsFull, Capacity
<1>2. ActivePlayers(l) = ActivePlayers(m)
  BY <1>1 DEF ActivePlayers, Capacity
<1>3. ActiveHumans(l) = ActiveHumans(m)
  BY <1>2 DEF ActiveHumans
<1>4. Startable(l) <=> Startable(m)
  BY <1>1, <1>3 DEF Startable, MeetsHumanRequirement
<1>5. QED
  BY <1>4 DEF Sorted
=============================================================================
