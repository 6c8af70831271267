----------------------------- MODULE PullProofs -----------------------------
(***************************************************************************)
(* Theorems about Pull and DumpSelection for any profiles, settings,       *)
(* servers, containers, identifiers and times: that the list, the lookup,  *)
(* the validation and the prune agree on which dumps are which, and that a *)
(* pull restores the dump it has chosen, into a container that a setup has *)
(* verified.  First what the operators of the selection compute, then the  *)
(* steps.                                                                  *)
(***************************************************************************)
EXTENDS Pull, TLAPS, FiniteSetTheorems

-----------------------------------------------------------------------------
(* Ranking.                                                                *)

(* R orders S, strictly and totally. *)
Orders(R, S) ==
  /\ \A x \in S : <<x, x>> \notin R
  /\ \A x, y, z \in S : <<x, y>> \in R /\ <<y, z>> \in R => <<x, z>> \in R
  /\ \A x, y \in S : x # y => <<x, y>> \in R \/ <<y, x>> \in R

Before(R, S, x) == {y \in S : <<y, x>> \in R}

(* The elements of S with fewer than k before them. *)
First(R, S, k) == {x \in S : Cardinality(Before(R, S, x)) < k}

(* In a finite set with a strict total order, k elements have fewer than k *)
(* before them, or all have: the number of those before an element is its  *)
(* rank, and the ranks are 0, 1, ... without gaps.                         *)
LEMMA Ranking ==
  ASSUME NEW S, IsFiniteSet(S), NEW R, Orders(R, S), NEW k \in Nat
  PROVE  Cardinality(First(R, S, k))
           = IF k <= Cardinality(S) THEN k ELSE Cardinality(S)
<1> DEFINE n == Cardinality(S)
           rank == [x \in S |-> Cardinality(Before(R, S, x))]
           low == {x \in S : rank[x] < k}
           m == IF k <= n THEN k ELSE n
<1>1. n \in Nat
  BY FS_CardinalityType
<1>2. ASSUME NEW x \in S
      PROVE  IsFiniteSet(Before(R, S, x)) /\ rank[x] \in 0..(n - 1)
  <2>1. IsFiniteSet(S \ {x}) /\ Cardinality(S \ {x}) = n - 1
    BY FS_RemoveElement
  <2>2. Before(R, S, x) \in SUBSET (S \ {x})
    BY DEF Orders, Before
  <2>3. IsFiniteSet(Before(R, S, x)) /\ Cardinality(Before(R, S, x)) <= n - 1
    BY <2>1, <2>2, FS_Subset
  <2>4. Cardinality(Before(R, S, x)) \in Nat
    BY <2>3, FS_CardinalityType
  <2>5. rank[x] = Cardinality(Before(R, S, x))
    OBVIOUS
  <2> QED
    BY <1>1, <2>3, <2>4, <2>5
<1>3. ASSUME NEW x \in S, NEW y \in S, <<x, y>> \in R
      PROVE  rank[x] < rank[y]
  <2>1. Before(R, S, x) \in SUBSET Before(R, S, y)
    BY <1>3 DEF Orders, Before
  <2>2. Before(R, S, x) # Before(R, S, y)
    BY <1>3 DEF Orders, Before
  <2>3. /\ Cardinality(Before(R, S, x)) <= Cardinality(Before(R, S, y))
        /\ Cardinality(Before(R, S, x)) # Cardinality(Before(R, S, y))
    BY <1>2, <2>1, <2>2, FS_Subset
  <2>4. rank[x] \in Nat /\ rank[y] \in Nat
    BY <1>1, <1>2
  <2>5. rank[x] = Cardinality(Before(R, S, x)) /\ rank[y] = Cardinality(Before(R, S, y))
    OBVIOUS
  <2> QED
    BY <2>3, <2>4, <2>5
<1>4. rank \in [S -> 0..(n - 1)]
  BY <1>2
<1>5. ASSUME NEW x \in S, NEW y \in S, rank[x] = rank[y]
      PROVE  x = y
  <2> SUFFICES ASSUME x # y PROVE FALSE
    OBVIOUS
  <2>1. <<x, y>> \in R \/ <<y, x>> \in R
    BY DEF Orders
  <2>2. rank[x] < rank[y] \/ rank[y] < rank[x]
    BY <1>3, <2>1
  <2> QED
    BY <1>1, <1>4, <1>5, <2>2
<1> HIDE DEF rank
<1>6. rank \in Injection(S, 0..(n - 1))
  BY <1>4, <1>5 DEF Injection, IsInjective
<1>7. IsFiniteSet(0..(n - 1)) /\ Cardinality(0..(n - 1)) = n
  <2>1. 0 \in Int /\ n - 1 \in Int
    BY <1>1
  <2>2. (IF 0 > n - 1 THEN 0 ELSE (n - 1) - 0 + 1) = n
    BY <1>1
  <2> HIDE DEF n
  <2> QED
    BY <2>1, <2>2, FS_Interval
<1>8. rank \in Surjection(S, 0..(n - 1))
  BY <1>6, <1>7, FS_Injection
<1>9. m \in Nat /\ 0..(m - 1) \subseteq 0..(n - 1) /\ m <= k
      /\ \A i \in 0..(n - 1) : i < k <=> i \in 0..(m - 1)
  BY <1>1
<1> HIDE DEF m
<1> DEFINE part == [x \in low |-> rank[x]]
<1>10. part \in [low -> 0..(m - 1)]
  BY <1>4, <1>9
<1>11. \A x, y \in low : part[x] = part[y] => x = y
  BY <1>5
<1>12. ASSUME NEW i \in 0..(m - 1)
       PROVE  \E x \in low : part[x] = i
  <2>1. i \in 0..(n - 1) /\ i < k
    BY <1>9
  <2>2. PICK x \in S : rank[x] = i
    BY <1>8, <2>1 DEF Surjection
  <2> QED
    BY <2>1, <2>2
<1>13. part \in Bijection(low, 0..(m - 1))
  <2> HIDE DEF part, low
  <2> QED
    BY <1>10, <1>11, <1>12 DEF Bijection, Injection, Surjection, IsInjective
<1>14. IsFiniteSet(low)
  BY FS_Subset
<1>15. Cardinality(low) = Cardinality(0..(m - 1))
  BY <1>13, <1>14, FS_Bijection DEF ExistsBijection
<1>16. Cardinality(0..(m - 1)) = m
  BY <1>9, FS_Interval
<1>17. low = First(R, S, k)
  BY DEF rank, First
<1> QED
  BY <1>15, <1>16, <1>17 DEF m

(* The order of dumps: by time, and by identifiers within the same second. *)
LEMMA RankingByTime ==
  ASSUME NEW S, NEW time \in [S -> Int], NEW key \in [S -> Int],
         \A x, y \in S : key[x] = key[y] => x = y,
         NEW R, \A x, y \in S : <<y, x>> \in R <=>
                  \/ time[y] > time[x]
                  \/ ~(time[x] > time[y]) /\ key[y] < key[x]
  PROVE  Orders(R, S)
  BY DEF Orders

(* What is before one of the first k is one of them. *)
LEMMA FirstIsClosed ==
  ASSUME NEW S, IsFiniteSet(S), NEW R, Orders(R, S), NEW k \in Nat,
         NEW y \in First(R, S, k), NEW x \in S, <<x, y>> \in R
  PROVE  x \in First(R, S, k)
<1>1. y \in S /\ Cardinality(Before(R, S, y)) < k
  BY DEF First
<1>2. Before(R, S, x) \in SUBSET Before(R, S, y) /\ Before(R, S, y) \in SUBSET S
  BY <1>1 DEF Orders, Before
<1>3. IsFiniteSet(Before(R, S, y))
  BY <1>2, FS_Subset
<1>4. IsFiniteSet(Before(R, S, x))
  BY <1>2, <1>3, FS_Subset
<1>5. Cardinality(Before(R, S, x)) <= Cardinality(Before(R, S, y))
  BY <1>2, <1>3, FS_Subset
<1>6. Cardinality(Before(R, S, x)) \in Nat /\ Cardinality(Before(R, S, y)) \in Nat
  BY <1>3, <1>4, FS_CardinalityType
<1> QED
  BY <1>1, <1>5, <1>6 DEF First

(* The first one is the one with none before it. *)
LEMMA FirstOne ==
  ASSUME NEW S, IsFiniteSet(S), NEW R, Orders(R, S)
  PROVE  First(R, S, 1) = {x \in S : \A y \in S \ {x} : <<x, y>> \in R}
<1>1. ASSUME NEW x \in S
      PROVE  Cardinality(Before(R, S, x)) < 1 <=> Before(R, S, x) = {}
  <2>1. Before(R, S, x) \in SUBSET S
    BY DEF Before
  <2>2. IsFiniteSet(Before(R, S, x))
    BY <2>1, FS_Subset
  <2>3. Cardinality(Before(R, S, x)) \in Nat
    BY <2>2, FS_CardinalityType
  <2> QED
    BY <2>2, <2>3, FS_EmptySet
<1>2. ASSUME NEW x \in S
      PROVE  Before(R, S, x) = {} <=> \A y \in S \ {x} : <<x, y>> \in R
  BY DEF Orders, Before
<1> QED
  BY <1>1, <1>2 DEF First

LEMMA MinOfTwo ==
  ASSUME NEW i \in Nat, NEW j \in Nat
  PROVE  Min({i, j}) = IF i <= j THEN i ELSE j
<1> DEFINE m == IF i <= j THEN i ELSE j
<1>1. m \in {i, j} /\ \A y \in {i, j} : m <= y
  OBVIOUS
<1>2. \A x \in {i, j} : (\A y \in {i, j} : x <= y) => x = m
  OBVIOUS
<1> QED
  BY <1>1, <1>2 DEF Min

-----------------------------------------------------------------------------
(* What the operators of the selection compute.                            *)

(* The numbers of a directory. *)
LEMMA ArtifactNumbers ==
  ASSUME SelectionTypeOK, NEW a \in cache
  PROVE  /\ a \in Artifact /\ a.place \in Place /\ a.metadata \in Metadata
         /\ a.place.id \in Nat /\ a.metadata.completed \in Nat
         /\ a.place.profile \in Profiles /\ a.place.database \in Databases
         /\ a.metadata.place \in Place /\ a.metadata.settings \in Settings
         /\ now \in Nat /\ Ttl \in Nat /\ Retention \in Nat
<1>1. a \in Artifact /\ now \in Nat
  BY NumbersAssumption DEF SelectionTypeOK, Time
<1>2. a.place \in Place /\ a.metadata \in Metadata
  BY <1>1 DEF Artifact
<1>3. /\ a.metadata.place \in Place /\ a.metadata.settings \in Settings
      /\ a.metadata.completed \in Time
  BY <1>2 DEF Metadata
<1>4. /\ a.place.id \in Ids
      /\ a.place.profile \in Profiles /\ a.place.database \in Databases
  BY <1>2 DEF Place
<1>5. Ttl \in Nat /\ Retention \in Nat /\ MaxTime \in Nat
  BY NumbersAssumption
<1>6. a.metadata.completed \in Nat
  BY <1>3, <1>5 DEF Time
<1>7. a.place.id \in Nat
  BY <1>4, NumbersAssumption
<1> QED
  BY <1>1, <1>2, <1>3, <1>4, <1>5, <1>6, <1>7

(* How the ages compare: Ttl is not above Retention. *)
LEMMA Ages ==
  ASSUME SelectionTypeOK, NEW a \in cache
  PROVE  /\ a.metadata.completed > now <=> ~(a.metadata.completed <= now)
         /\ now >= a.metadata.completed + Ttl <=> ~(now < a.metadata.completed + Ttl)
         /\ now >= a.metadata.completed + Retention => now >= a.metadata.completed + Ttl
  BY ArtifactNumbers, NumbersAssumption

(* The list shows as ready what a pull of the configured profile reuses.   *)
LEMMA ReadyMeansReusable ==
  ASSUME SelectionTypeOK, NEW a \in cache
  PROVE  Status(a) = "ready" <=>
           /\ settings[a.place.profile] # NoSettings
           /\ Complete(a) /\ Reusable(a, settings[a.place.profile])
<1>1. a.file \in {"readable", "missing", "corrupt", "miscounted"}
      /\ a.dump \in {"intact", "missing", "resized", "altered"}
  BY DEF SelectionTypeOK, Artifact
<1> DEFINE Future == a.metadata.completed > now
           Fresh == now < a.metadata.completed + Ttl
           Old == now >= a.metadata.completed + Ttl
           Ancient == now >= a.metadata.completed + Retention
<1>2. /\ Future <=> ~(a.metadata.completed <= now)
      /\ Old <=> ~Fresh
      /\ Ancient => Old
  BY Ages
<1>3. Status(a) = "ready" <=>
        /\ a.file # "missing" /\ a.file # "corrupt" /\ Identified(a)
        /\ a.dump \notin {"missing", "resized", "altered"}
        /\ a.metadata.policy = policy
        /\ settings[a.place.profile] # NoSettings
        /\ a.metadata.settings = settings[a.place.profile]
        /\ ~Future /\ ~Ancient /\ ~Old
  <2> HIDE DEF Fresh
  <2> QED
    BY Zenon DEF Status
<1> HIDE DEF Future, Fresh, Old, Ancient
<1>4. Reusable(a, settings[a.place.profile]) <=>
        /\ Identified(a) /\ a.metadata.settings = settings[a.place.profile]
        /\ a.metadata.policy = policy /\ ~Future /\ Fresh /\ a.dump = "intact"
  BY <1>2 DEF Reusable, Fresh
<1> QED
  BY <1>1, <1>2, <1>3, <1>4 DEF Complete, Identified, HasMetadata

(* A directory is known by its place. *)
LEMMA SamePlaceSame ==
  ASSUME SelectionTypeOK, NEW a \in cache, NEW b \in cache,
         a.place.profile = b.place.profile, a.place.database = b.place.database,
         a.place.id = b.place.id
  PROVE  a = b
<1>1. a.place = b.place
  BY ArtifactNumbers DEF Place
<1> QED
  BY <1>1 DEF SelectionTypeOK

(* The candidates of a prune with the profile and database of a.           *)
Group(a) == {b \in Candidates : /\ b.place.profile = a.place.profile
                                /\ b.place.database = a.place.database}

GroupOrder(a) == {r \in Group(a) \X Group(a) : Precedes(r[1], r[2])}

LEMMA GroupOrders ==
  ASSUME SelectionTypeOK, NEW a \in Candidates
  PROVE  Orders(GroupOrder(a), Group(a))
<1> DEFINE time == [x \in Group(a) |-> x.metadata.completed]
           key == [x \in Group(a) |-> 0 - x.place.id]
<1>1. \A x \in Group(a) : /\ x \in cache /\ x.metadata.completed \in Nat
                          /\ x.place.id \in Nat
                          /\ x.place.profile = a.place.profile
                          /\ x.place.database = a.place.database
  BY ArtifactNumbers DEF Group, Candidates
<1>2. time \in [Group(a) -> Int] /\ key \in [Group(a) -> Int]
  BY <1>1
<1>3. \A x, y \in Group(a) : key[x] = key[y] => x = y
  BY <1>1, SamePlaceSame
<1>4. \A x, y \in Group(a) : <<y, x>> \in GroupOrder(a) <=> Precedes(y, x)
  BY DEF GroupOrder
<1>5. \A x, y \in Group(a) : Precedes(y, x) <=>
        \/ time[y] > time[x]
        \/ ~(time[x] > time[y]) /\ key[y] < key[x]
  BY <1>1 DEF Precedes, Newer
<1> HIDE DEF time, key
<1> QED
  BY <1>2, <1>3, <1>4, <1>5, RankingByTime

(* What --keep-last leaves of a group are the first of it. *)
LEMMA KeptAreFirst ==
  ASSUME SelectionTypeOK, IsFiniteSet(cache), NEW count \in Nat, NEW a \in Candidates
  PROVE  /\ IsFiniteSet(Group(a))
         /\ Group(a) \ KeepLast(count) = First(GroupOrder(a), Group(a), count)
<1>1. Group(a) \in SUBSET cache
  BY DEF Group, Candidates
<1>2. IsFiniteSet(Group(a))
  BY <1>1, FS_Subset
<1>3. ASSUME NEW b \in Group(a)
      PROVE  {c \in Candidates : Precedes(c, b)} = Before(GroupOrder(a), Group(a), b)
  BY DEF Before, GroupOrder, Group, Precedes
<1>4. ASSUME NEW b \in Group(a)
      PROVE  Cardinality(Before(GroupOrder(a), Group(a), b)) \in Nat
  <2>1. Before(GroupOrder(a), Group(a), b) \in SUBSET Group(a)
    BY DEF Before
  <2> QED
    BY <1>2, <2>1, FS_Subset, FS_CardinalityType
<1>5. \A b \in Group(a) : b \in KeepLast(count) <=>
        Cardinality(Before(GroupOrder(a), Group(a), b)) >= count
  BY <1>3 DEF KeepLast, Group
<1> QED
  BY <1>2, <1>4, <1>5 DEF First

(* --keep-last leaves the newest, for any count.                           *)
LEMMA KeepLastKeepsAny ==
  ASSUME SelectionTypeOK, IsFiniteSet(cache), NEW count \in Nat, NEW a \in Candidates
  PROVE  /\ Cardinality(Group(a) \ KeepLast(count)) = Min({count, Cardinality(Group(a))})
         /\ \A b \in Group(a) \ KeepLast(count),
               c \in Group(a) \ (Group(a) \ KeepLast(count)) : ~Newer(c, b)
<1>1. /\ IsFiniteSet(Group(a)) /\ Orders(GroupOrder(a), Group(a))
      /\ Group(a) \ KeepLast(count) = First(GroupOrder(a), Group(a), count)
  BY KeptAreFirst, GroupOrders
<1>2. Cardinality(Group(a)) \in Nat
  BY <1>1, FS_CardinalityType
<1>3. Cardinality(Group(a) \ KeepLast(count)) = Min({count, Cardinality(Group(a))})
  BY <1>1, <1>2, Ranking, MinOfTwo
<1>4. ASSUME NEW b \in Group(a) \ KeepLast(count), NEW c \in Group(a), Newer(c, b)
      PROVE  c \in Group(a) \ KeepLast(count)
  <2>1. <<c, b>> \in GroupOrder(a)
    BY <1>4 DEF GroupOrder, Precedes, Group
  <2> QED
    BY <1>1, <2>1, FirstIsClosed
<1> QED
  BY <1>3, <1>4

LEMMA KeepLastKeepsHere ==
  ASSUME SelectionTypeOK, IsFiniteSet(cache)
  PROVE  KeepLastKeeps
<1>1. ASSUME NEW count \in 1..2, NEW a \in Candidates
      PROVE  LET kept == Group(a) \ KeepLast(count)
             IN /\ Cardinality(kept) = Min({count, Cardinality(Group(a))})
                /\ \A b \in kept, c \in Group(a) \ kept : ~Newer(c, b)
  BY KeepLastKeepsAny
<1> QED
  BY <1>1 DEF KeepLastKeeps, Group

(* What a lookup can choose from, and in which order. *)
Hits(n, d, s) == {a \in cache : /\ a.place.profile = n /\ a.place.database = d
                                /\ Complete(a) /\ Reusable(a, s)}

HitOrder(H) == {r \in H \X H :
                  \/ Newer(r[1], r[2])
                  \/ ~Newer(r[2], r[1]) /\ r[1].place.id < r[2].place.id}

LEMMA HitOrders ==
  ASSUME SelectionTypeOK, NEW n, NEW d, NEW s
  PROVE  Orders(HitOrder(Hits(n, d, s)), Hits(n, d, s))
<1> DEFINE H == Hits(n, d, s)
           time == [x \in H |-> x.metadata.completed]
           key == [x \in H |-> x.place.id]
<1>1. \A x \in H : /\ x \in cache /\ x.metadata.completed \in Nat
                   /\ x.place.id \in Nat
                   /\ x.place.profile = n /\ x.place.database = d
  BY ArtifactNumbers DEF Hits
<1> HIDE DEF H
<1>2. time \in [H -> Int] /\ key \in [H -> Int]
  BY <1>1
<1>3. \A x, y \in H : key[x] = key[y] => x = y
  BY <1>1, SamePlaceSame
<1>4. \A x, y \in H : <<y, x>> \in HitOrder(H) <=>
        \/ time[y] > time[x]
        \/ ~(time[x] > time[y]) /\ key[y] < key[x]
  BY DEF HitOrder, Newer
<1> HIDE DEF time, key
<1>5. Orders(HitOrder(H), H)
  BY <1>2, <1>3, <1>4, RankingByTime
<1> QED
  BY <1>5 DEF H

(* A lookup finds the first of these. *)
LEMMA LookupIsFirst ==
  ASSUME SelectionTypeOK, IsFiniteSet(cache), NEW n, NEW d, NEW s
  PROVE  Lookup(n, d, s) = First(HitOrder(Hits(n, d, s)), Hits(n, d, s), 1)
<1> DEFINE H == Hits(n, d, s)
<1>1. IsFiniteSet(H) /\ Orders(HitOrder(H), H)
  <2>1. H \in SUBSET cache
    BY DEF Hits
  <2>2. Orders(HitOrder(H), H)
    BY HitOrders
  <2> HIDE DEF H
  <2> QED
    BY <2>1, <2>2, FS_Subset
<1>2. Lookup(n, d, s) = {a \in H : \A b \in H \ {a} :
                           \/ Newer(a, b)
                           \/ ~Newer(b, a) /\ a.place.id < b.place.id}
  BY DEF Lookup, Hits
<1> HIDE DEF H
<1>3. \A a, b \in H : <<a, b>> \in HitOrder(H) <=>
        \/ Newer(a, b)
        \/ ~Newer(b, a) /\ a.place.id < b.place.id
  BY DEF HitOrder
<1>4. Lookup(n, d, s) = {a \in H : \A b \in H \ {a} : <<a, b>> \in HitOrder(H)}
  BY <1>2, <1>3
<1>5. First(HitOrder(H), H, 1) = {a \in H : \A b \in H \ {a} : <<a, b>> \in HitOrder(H)}
  BY <1>1, FirstOne
<1> QED
  BY <1>4, <1>5 DEF H

LEMMA ReadyIsReusedHere ==
  ASSUME SelectionTypeOK, IsFiniteSet(cache)
  PROVE  ReadyIsReused
<1> SUFFICES ASSUME NEW n \in Profiles, NEW d \in Databases, settings[n] # NoSettings
             PROVE  LET ready == {a \in cache : /\ Status(a) = "ready"
                                                /\ a.place.profile = n
                                                /\ a.place.database = d}
                        hit == Lookup(n, d, settings[n])
                    IN /\ Cardinality(hit) = (IF ready = {} THEN 0 ELSE 1)
                       /\ \A a \in hit : a \in ready /\ \A b \in ready : ~Newer(b, a)
  BY DEF ReadyIsReused
<1> DEFINE H == Hits(n, d, settings[n])
           ready == {a \in cache : /\ Status(a) = "ready"
                                   /\ a.place.profile = n
                                   /\ a.place.database = d}
           hit == Lookup(n, d, settings[n])
<1>1. ready = H
  BY ReadyMeansReusable DEF Hits
<1>2. IsFiniteSet(H) /\ Orders(HitOrder(H), H)
  <2>1. H \in SUBSET cache
    BY DEF Hits
  <2>2. Orders(HitOrder(H), H)
    BY HitOrders
  <2> HIDE DEF H
  <2> QED
    BY <2>1, <2>2, FS_Subset
<1>3. hit = First(HitOrder(H), H, 1)
  BY LookupIsFirst
<1>4. \A a, b \in H : <<a, b>> \in HitOrder(H) => ~Newer(b, a)
  <2>1. \A a \in H : a.metadata.completed \in Nat
    BY ArtifactNumbers DEF Hits
  <2> HIDE DEF H
  <2> QED
    BY <2>1 DEF HitOrder, Newer
<1>5. \A a \in H : ~Newer(a, a)
  BY ArtifactNumbers DEF Hits, Newer
<1> HIDE DEF H, ready, hit
<1>6. Cardinality(H) \in Nat /\ (Cardinality(H) = 0 <=> H = {})
  BY <1>2, FS_CardinalityType, FS_EmptySet
<1>7. Cardinality(hit) = IF 1 <= Cardinality(H) THEN 1 ELSE Cardinality(H)
  BY <1>2, <1>3, Ranking
<1>8. Cardinality(hit) = (IF ready = {} THEN 0 ELSE 1)
  BY <1>1, <1>6, <1>7
<1>9. hit = {a \in H : \A b \in H \ {a} : <<a, b>> \in HitOrder(H)}
  BY <1>2, <1>3, FirstOne
<1>10. \A a \in hit : a \in ready /\ \A b \in ready : ~Newer(b, a)
  BY <1>1, <1>4, <1>5, <1>9
<1> QED
  BY <1>8, <1>10 DEF ready, hit

(* What the list says of a directory whose files are in order. *)
LEMMA SoundMeansIntact ==
  ASSUME SelectionTypeOK, NEW a \in cache
  PROVE  Status(a) \in Sound <=> Identified(a) /\ a.dump = "intact"
<1>1. a.file \in {"readable", "missing", "corrupt", "miscounted"}
      /\ a.dump \in {"intact", "missing", "resized", "altered"}
  BY DEF SelectionTypeOK, Artifact
<1>2. Identified(a) => a.file \in {"readable", "miscounted"}
  BY DEF Identified, HasMetadata
<1>3. CASE Identified(a) /\ a.dump = "intact"
  <2>1. a.file # "missing" /\ a.file # "corrupt"
        /\ a.dump # "missing" /\ a.dump # "resized" /\ a.dump # "altered"
    BY <1>2, <1>3
  <2>2. Status(a) \in {"policy changed", "profile missing", "source changed",
                       "clock in future", "prunable", "stale", "ready"}
    BY <1>3, <2>1, Zenon DEF Status
  <2> QED
    BY <1>3, <2>2 DEF Sound
<1>4. CASE ~(Identified(a) /\ a.dump = "intact")
  <2>1. Status(a) \in {"missing file", "corrupt metadata", "identity changed",
                       "size mismatch", "checksum mismatch"}
    BY <1>1, <1>4, Zenon DEF Status
  <2> QED
    BY <1>4, <2>1 DEF Sound
<1> QED
  BY <1>3, <1>4

(* What a restore accepts, of a directory that alone has its identifier.   *)
LEMMA AcceptedAlone ==
  ASSUME SelectionTypeOK, NEW a \in cache, Single(a)
  PROVE  Validated(a.place.id, a.place.database) = {a}
           <=> Identified(a) /\ a.file # "miscounted" /\ a.dump = "intact"
<1> DEFINE found == {b \in cache : b.place.id = a.place.id /\ Complete(b)}
<1>1. Validated(a.place.id, a.place.database)
        = IF Cardinality(found) # 1 THEN {}
          ELSE {b \in found : /\ Identified(b) /\ b.file # "miscounted"
                              /\ b.dump = "intact"
                              /\ b.place.database = a.place.database}
  BY DEF Validated
<1>2. found = IF Complete(a) THEN {a} ELSE {}
  BY DEF Single
<1>3. Identified(a) /\ a.dump = "intact" => Complete(a)
  BY DEF Identified, HasMetadata, Complete
<1>4. Cardinality({a}) = 1 /\ Cardinality({}) = 0
  BY FS_Singleton, FS_EmptySet
<1> HIDE DEF found
<1>5. CASE Complete(a)
  BY <1>1, <1>2, <1>4, <1>5
<1>6. CASE ~Complete(a)
  BY <1>1, <1>2, <1>3, <1>4, <1>6
<1> QED
  BY <1>5, <1>6

LEMMA SoundIsRestorableHere ==
  ASSUME SelectionTypeOK
  PROVE  SoundIsRestorable
<1> SUFFICES ASSUME NEW a \in cache, Single(a)
             PROVE  LET accepted == Validated(a.place.id, a.place.database) = {a}
                    IN /\ accepted => Status(a) \in Sound
                       /\ Status(a) \in Sound /\ ~accepted => a.file = "miscounted"
  BY DEF SoundIsRestorable
<1> QED
  BY AcceptedAlone, SoundMeansIntact

LEMMA DefaultPruneMatchesListHere ==
  ASSUME SelectionTypeOK
  PROVE  DefaultPruneMatchesList
<1> SUFFICES ASSUME NEW a \in cache
             PROVE  /\ Status(a) = "prunable" => a \in OlderThan(Retention)
                    /\ Status(a) \in {"ready", "stale", "clock in future"} =>
                         a \notin OlderThan(Retention)
  BY DEF DefaultPruneMatchesList
<1> DEFINE Future == a.metadata.completed > now
           Ancient == now >= a.metadata.completed + Retention
<1>1. a \in OlderThan(Retention) <=> HasMetadata(a) /\ ~Future /\ Ancient
  BY Ages DEF OlderThan, Candidates
<1>2. /\ Status(a) = "prunable" => Identified(a) /\ ~Future /\ Ancient
      /\ Status(a) \in {"ready", "stale"} => ~Ancient
      /\ Status(a) = "clock in future" => Future
  BY Zenon DEF Status
<1> QED
  BY <1>1, <1>2 DEF Identified

-----------------------------------------------------------------------------
(* The inductive invariant.                                                *)

(* A copy of a directory keeps its identifier and its metadata. *)
CopiesAgree == \A x, y \in cache : x.place.id = y.place.id => x.metadata = y.metadata

(* The dump that was chosen, whatever became of its directory: what still  *)
(* has its identifier was taken with the settings of the pull, in the      *)
(* place the pull has dumped or had a hit on.                              *)
ChoiceFits ==
  pull.pc = "ready" =>
    /\ pull.place \in Place
    /\ \A b \in cache : b.place.id = pull.place.id =>
         /\ b.metadata.settings = pull.settings
         /\ pull.profile # NoProfile => b.metadata.place = pull.place

(* What a dump that is under way knows. *)
DumpShape ==
  pull.pc = "dumping" =>
    pull.profile \in Profiles /\ pull.settings \in Settings /\ pull.server \in Servers

(* Every container in the configuration, and the one that a command has    *)
(* loaded, was verified by a setup under the name it has there.            *)
TargetsConfirmed ==
  /\ \A n \in Names : target[n] # NoContainer => <<n, target[n]>> \in confirmed
  /\ pull.pc \in {"loaded", "attested", "replaced"} =>
       <<pull.name, pull.container>> \in confirmed

InductiveInvariant ==
  /\ TypeOK /\ IsFiniteSet(cache) /\ CopiesAgree
  /\ HitOutlivesPrunes /\ ChoiceFits /\ DumpShape /\ TargetsConfirmed

-----------------------------------------------------------------------------
(* What the steps do to the directories.                                   *)

CacheOK ==
  /\ cache \subseteq Artifact
  /\ \A x, y \in cache : x.place = y.place => x = y
  /\ IsFiniteSet(cache)
  /\ CopiesAgree

(* Every directory was there before, or comes from one with the same       *)
(* identifier and the same metadata.                                       *)
Descends ==
  \A x \in cache' : \E y \in cache :
    x.place.id = y.place.id /\ x.metadata = y.metadata

LEMMA CacheIsOK ==
  ASSUME InductiveInvariant
  PROVE  CacheOK
  BY DEF InductiveInvariant, TypeOK, SelectionTypeOK, CacheOK

(* What is in the artifact of a new dump.                                  *)
LEMMA NewArtifactFields ==
  ASSUME SelectionTypeOK, NEW n \in Profiles, NEW s \in Settings,
         NEW d \in Databases, NEW i \in Ids, NEW server \in Servers,
         NEW origin \in Servers
  PROVE  LET a == NewArtifact(n, s, d, i, server, origin)
         IN /\ a \in Artifact /\ a.place \in Place /\ a.place.id = i
            /\ a.metadata.settings = s /\ a.metadata.place = a.place
<1> DEFINE place == [profile |-> n, database |-> d, id |-> i]
           metadata == [place |-> place, settings |-> s, policy |-> policy,
                        completed |-> now, server |-> server]
<1>1. place \in Place /\ place.id = i
  BY DEF Place
<1>2. policy \in Policies /\ now \in Time
  BY DEF SelectionTypeOK
<1> HIDE DEF place
<1>3. /\ metadata \in Metadata /\ metadata.settings = s
      /\ metadata.place = place
  BY <1>1, <1>2 DEF Metadata
<1>4. NewArtifact(n, s, d, i, server, origin)
        = [place |-> place, file |-> "readable", dump |-> "intact",
           origin |-> origin, metadata |-> metadata]
  BY DEF NewArtifact, place
<1> HIDE DEF metadata
<1> QED
  BY <1>1, <1>3, <1>4 DEF Artifact

(* A new dump has an identifier of its own. *)
LEMMA NewDump ==
  ASSUME CacheOK, NEW a \in Artifact, \A x \in cache : x.place.id # a.place.id,
         cache' = cache \cup {a}
  PROVE  CacheOK'
<1>1. IsFiniteSet(cache')
  BY FS_AddElement DEF CacheOK
<1>2. CopiesAgree'
  BY DEF CacheOK, CopiesAgree
<1>3. \A x, y \in cache' : x.place = y.place => x = y
  BY DEF CacheOK
<1> QED
  BY <1>1, <1>2, <1>3 DEF CacheOK

(* What is left of the directories. *)
LEMMA FewerDirectories ==
  ASSUME CacheOK, cache' \subseteq cache
  PROVE  CacheOK' /\ Descends
<1>1. IsFiniteSet(cache')
  BY FS_Subset DEF CacheOK
<1> QED
  BY <1>1 DEF CacheOK, CopiesAgree, Descends

(* A damaged directory keeps its place and what its metadata say. *)
LEMMA DamageFields ==
  ASSUME CacheOK, NEW a \in cache, Damage(a)
  PROVE  \E b \in Artifact : /\ b.place = a.place /\ b.metadata = a.metadata
                             /\ cache' = (cache \ {a}) \cup {b}
<1>1. a \in Artifact
  BY DEF CacheOK
<1>2. \A b \in {[a EXCEPT !.file = "missing"], [a EXCEPT !.file = "corrupt"],
                [a EXCEPT !.file = "miscounted"], [a EXCEPT !.dump = "missing"],
                [a EXCEPT !.dump = "resized"], [a EXCEPT !.dump = "altered"]} :
        b \in Artifact /\ b.place = a.place /\ b.metadata = a.metadata
  BY <1>1 DEF Artifact
<1> QED
  BY <1>2 DEF Damage

LEMMA Damaged ==
  ASSUME CacheOK, NEW a \in cache, NEW b \in Artifact,
         b.place = a.place, b.metadata = a.metadata,
         cache' = (cache \ {a}) \cup {b}
  PROVE  CacheOK' /\ Descends
<1>1. IsFiniteSet(cache')
  BY FS_RemoveElement, FS_AddElement DEF CacheOK
<1>2. \A x \in cache' : \E y \in cache : x.place = y.place /\ x.metadata = y.metadata
  BY DEF CacheOK
<1>3. CopiesAgree'
  BY <1>2 DEF CacheOK, CopiesAgree
<1>4. \A x, y \in cache' : x.place = y.place => x = y
  BY DEF CacheOK
<1>5. cache' \subseteq Artifact
  BY DEF CacheOK
<1> QED
  BY <1>1, <1>2, <1>3, <1>4, <1>5 DEF CacheOK, Descends

(* A copy is in another place. *)
LEMMA Copied ==
  ASSUME CacheOK, NEW a \in cache, NEW place \in Place, place.id = a.place.id,
         \A b \in cache : b.place # place,
         cache' = cache \cup {[a EXCEPT !.place = place]}
  PROVE  CacheOK' /\ Descends
<1> DEFINE c == [a EXCEPT !.place = place]
<1>1. c \in Artifact /\ c.place = place /\ c.metadata = a.metadata
  BY DEF CacheOK, Artifact
<1>3. cache' = cache \cup {c}
  OBVIOUS
<1> HIDE DEF c
<1>2. IsFiniteSet(cache')
  BY FS_AddElement DEF CacheOK
<1>4. Descends
  BY <1>1, <1>3 DEF Descends
<1>5. CopiesAgree'
  BY <1>4 DEF CacheOK, CopiesAgree, Descends
<1>6. \A x, y \in cache' : x.place = y.place => x = y
  BY <1>1, <1>3 DEF CacheOK
<1> QED
  BY <1>1, <1>2, <1>3, <1>4, <1>5, <1>6 DEF CacheOK

LEMMA SameDirectories ==
  ASSUME CacheOK, cache' = cache
  PROVE  CacheOK' /\ Descends
  BY DEF CacheOK, CopiesAgree, Descends

-----------------------------------------------------------------------------
(* The steps of others.                                                    *)

LEMMA EventType ==
  ASSUME SelectionTypeOK, Event
  PROVE  events' \in 0..MaxEvents
<1>1. events \in 0..MaxEvents /\ MaxEvents \in Nat
  BY NumbersAssumption DEF SelectionTypeOK
<1> QED
  BY <1>1 DEF Event

(* A step of others keeps the invariant if it keeps the types, the         *)
(* directories in order, and the dump that is leased.                      *)
LEMMA OthersKeep ==
  ASSUME InductiveInvariant, UNCHANGED <<targetVars, pull>>,
         SelectionTypeOK', CacheOK', Descends, HitOutlivesPrunes'
  PROVE  InductiveInvariant'
<1>1. TypeOK'
  BY DEF InductiveInvariant, TypeOK, targetVars
<1>2. ChoiceFits'
  BY DEF InductiveInvariant, ChoiceFits, Descends
<1>3. DumpShape' /\ TargetsConfirmed'
  BY DEF InductiveInvariant, DumpShape, TargetsConfirmed, targetVars
<1> QED
  BY <1>1, <1>2, <1>3 DEF InductiveInvariant, CacheOK

(* What the invariant gives to a step that leaves the directories alone. *)
LEMMA QuietStep ==
  ASSUME InductiveInvariant, UNCHANGED <<targetVars, pull>>,
         SelectionTypeOK', cache' = cache
  PROVE  InductiveInvariant'
<1>1. CacheOK' /\ Descends
  BY CacheIsOK, SameDirectories
<1>2. HitOutlivesPrunes'
  BY DEF InductiveInvariant, HitOutlivesPrunes
<1> QED
  BY <1>1, <1>2, OthersKeep

LEMMA ConfigurationType ==
  ASSUME SelectionTypeOK, ConfigurationStep
  PROVE  SelectionTypeOK' /\ cache' = cache
<1>1. events' \in 0..MaxEvents
  BY EventType DEF ConfigurationStep, RemoveProfile, UseProfile, AddProfile
<1>2. PICK n \in Profiles :
        RemoveProfile(n) \/ UseProfile(n) \/ \E s \in Settings : AddProfile(n, s)
  BY DEF ConfigurationStep
<1>3. UNCHANGED <<now, reaches, policy, cache, plan>>
  BY <1>2 DEF RemoveProfile, UseProfile, AddProfile
<1>4. /\ settings' \in [Profiles -> Settings \cup {NoSettings}]
      /\ active' \in {m \in Profiles : settings'[m] # NoSettings} \cup {NoProfile}
  <2>1. CASE RemoveProfile(n)
    BY <2>1 DEF RemoveProfile, SelectionTypeOK
  <2>2. CASE UseProfile(n)
    BY <2>2 DEF UseProfile, SelectionTypeOK
  <2>3. CASE \E s \in Settings : AddProfile(n, s)
    BY <2>3, SettingsAssumption DEF AddProfile, SelectionTypeOK
  <2> QED
    BY <1>2, <2>1, <2>2, <2>3
<1> QED
  BY <1>1, <1>3, <1>4 DEF SelectionTypeOK

(* The clock, the addresses and the release. *)
LEMMA WorldType ==
  ASSUME SelectionTypeOK,
         \/ \E t \in Time : SetClock(t)
         \/ \E s \in Settings, v \in Servers : Repoint(s, v)
         \/ \E v \in Policies : Upgrade(v)
  PROVE  SelectionTypeOK' /\ cache' = cache
<1>1. events' \in 0..MaxEvents
  BY EventType DEF SetClock, Repoint, Upgrade
<1>2. CASE \E t \in Time : SetClock(t)
  BY <1>1, <1>2 DEF SetClock, configuration, SelectionTypeOK
<1>3. CASE \E s \in Settings, v \in Servers : Repoint(s, v)
  BY <1>1, <1>3 DEF Repoint, configuration, SelectionTypeOK
<1>4. CASE \E v \in Policies : Upgrade(v)
  BY <1>1, <1>4 DEF Upgrade, configuration, SelectionTypeOK
<1> QED
  BY <1>2, <1>3, <1>4

(* Steps on the directories leave the rest alone. *)
LEMMA DirectoriesType ==
  ASSUME SelectionTypeOK, CacheOK', plan' \subseteq Place, events' \in 0..MaxEvents,
         UNCHANGED <<now, configuration, reaches, policy>>
  PROVE  SelectionTypeOK'
  BY DEF SelectionTypeOK, CacheOK, configuration

(* A dump, of which no pull remembers anything. *)
LEMMA DumpStep ==
  ASSUME InductiveInvariant, NEW d \in Databases, NEW i \in Ids,
         FreshId(i, Remembered), Dump(d, i), UNCHANGED <<targetVars, pull>>
  PROVE  InductiveInvariant'
<1> DEFINE s == settings[active]
           a == NewArtifact(active, s, d, i, reaches[s], reaches[s])
<1>1. SelectionTypeOK /\ CacheOK
  BY CacheIsOK DEF InductiveInvariant, TypeOK
<1>2. active \in Profiles /\ s \in Settings /\ reaches[s] \in Servers
  BY <1>1 DEF Dump, SelectionTypeOK
<1>3. a \in Artifact /\ a.place.id = i
  BY <1>1, <1>2, NewArtifactFields
<1>4. cache' = cache \cup {a} /\ plan' = plan
      /\ UNCHANGED <<now, configuration, reaches, policy>>
  BY DEF Dump
<1> HIDE DEF a, s
<1>5. \A x \in cache : x.place.id # a.place.id
  BY <1>3 DEF FreshId
<1>6. CacheOK'
  BY <1>1, <1>3, <1>4, <1>5, NewDump
<1>7. SelectionTypeOK'
  BY <1>1, <1>4, <1>6, DirectoriesType, EventType DEF Dump, SelectionTypeOK
<1>8. TypeOK' /\ IsFiniteSet(cache') /\ CopiesAgree'
  BY <1>6, <1>7 DEF InductiveInvariant, TypeOK, targetVars, CacheOK
<1>9. HitOutlivesPrunes'
  BY <1>4 DEF InductiveInvariant, HitOutlivesPrunes
<1>10. ChoiceFits'
  <2>1. ASSUME pull.pc = "ready"
        PROVE  pull.place.id # i /\ pull.place \in Place
    BY <2>1, DumpAssumption DEF FreshId, Remembered, InductiveInvariant, ChoiceFits
  <2> QED
    BY <1>3, <1>4, <2>1 DEF InductiveInvariant, ChoiceFits
<1>11. DumpShape' /\ TargetsConfirmed'
  BY DEF InductiveInvariant, DumpShape, TargetsConfirmed, targetVars
<1> QED
  BY <1>8, <1>9, <1>10, <1>11 DEF InductiveInvariant

LEMMA DamageStep ==
  ASSUME InductiveInvariant, NEW a \in cache, Damage(a), UNCHANGED <<targetVars, pull>>
  PROVE  InductiveInvariant'
<1>1. SelectionTypeOK /\ CacheOK
  BY CacheIsOK DEF InductiveInvariant, TypeOK
<1>2. PICK b \in Artifact : /\ b.place = a.place /\ b.metadata = a.metadata
                            /\ cache' = (cache \ {a}) \cup {b}
  BY <1>1, DamageFields
<1>3. CacheOK' /\ Descends
  BY <1>1, <1>2, Damaged
<1>4. plan' = plan /\ UNCHANGED <<now, configuration, reaches, policy>>
  BY DEF Damage
<1>5. SelectionTypeOK'
  BY <1>1, <1>3, <1>4, DirectoriesType, EventType DEF Damage, SelectionTypeOK
<1>6. HitOutlivesPrunes'
  BY <1>2 DEF InductiveInvariant, HitOutlivesPrunes
<1> QED
  BY <1>3, <1>5, <1>6, OthersKeep

LEMMA CopyStep ==
  ASSUME InductiveInvariant, NEW a \in cache, NEW n \in Profiles, NEW d \in Databases,
         Copy(a, n, d), UNCHANGED <<targetVars, pull>>
  PROVE  InductiveInvariant'
<1> DEFINE place == [profile |-> n, database |-> d, id |-> a.place.id]
<1>1. SelectionTypeOK /\ CacheOK
  BY CacheIsOK DEF InductiveInvariant, TypeOK
<1>2. place \in Place /\ place.id = a.place.id
  BY <1>1 DEF CacheOK, Artifact, Place
<1>3. /\ \A b \in cache : b.place # place
      /\ cache' = cache \cup {[a EXCEPT !.place = place]}
      /\ plan' = plan /\ UNCHANGED <<now, configuration, reaches, policy>>
  BY DEF Copy
<1> HIDE DEF place
<1>4. CacheOK' /\ Descends
  BY <1>1, <1>2, <1>3, Copied
<1>5. SelectionTypeOK'
  BY <1>1, <1>3, <1>4, DirectoriesType, EventType DEF Copy, SelectionTypeOK
<1>6. HitOutlivesPrunes'
  BY <1>3 DEF InductiveInvariant, HitOutlivesPrunes
<1> QED
  BY <1>4, <1>5, <1>6, OthersKeep

(* A prune is planned, declined, or done: what is leased is not taken. *)
LEMMA PruneStep ==
  ASSUME InductiveInvariant, UNCHANGED <<targetVars, pull>>,
         \/ \E selected \in SUBSET cache, wanted \in SUBSET Databases :
              PlanPrune(selected, wanted)
         \/ ExecutePrune(Leased) \/ DeclinePrune
  PROVE  InductiveInvariant'
<1>1. SelectionTypeOK /\ CacheOK
  BY CacheIsOK DEF InductiveInvariant, TypeOK
<1>2. CASE \E selected \in SUBSET cache, wanted \in SUBSET Databases :
             PlanPrune(selected, wanted)
  <2>2. PICK selected \in SUBSET cache, wanted \in SUBSET Databases :
          PlanPrune(selected, wanted)
    BY <1>2
  <2>3. /\ cache' = cache /\ UNCHANGED <<now, configuration, reaches, policy>>
        /\ events' \in 0..MaxEvents
    BY <1>1, <2>2, EventType DEF PlanPrune
  <2>4. plan' \subseteq Place
    BY <1>1, <2>2 DEF PlanPrune, CacheOK, Artifact
  <2>5. SelectionTypeOK'
    BY <1>1, <2>3, <2>4, SameDirectories, DirectoriesType
  <2> QED
    BY <2>3, <2>5, QuietStep
<1>3. CASE ExecutePrune(Leased)
  <2>1. /\ cache' = {a \in cache : a.place \notin plan \/ a.place \in Leased}
        /\ plan' = {} /\ events' = events
        /\ UNCHANGED <<now, configuration, reaches, policy>>
    BY <1>3 DEF ExecutePrune
  <2>2. CacheOK' /\ Descends
    BY <1>1, <2>1, FewerDirectories
  <2>3. SelectionTypeOK'
    BY <1>1, <2>1, <2>2, DirectoriesType DEF SelectionTypeOK
  <2>4. HitOutlivesPrunes'
    <3>1. ASSUME pull.leased
          PROVE  \E a \in cache' : a.place = pull.place
      <4>1. PICK a \in cache : a.place = pull.place
        BY <3>1 DEF InductiveInvariant, HitOutlivesPrunes
      <4>2. a.place # NoDump
        BY <1>1, DumpAssumption DEF CacheOK, Artifact
      <4>3. a.place \in Leased
        BY <3>1, <4>1, <4>2 DEF Leased, Remembered
      <4> QED
        BY <2>1, <4>1, <4>3
    <3> QED
      BY <3>1 DEF HitOutlivesPrunes
  <2> QED
    BY <2>2, <2>3, <2>4, OthersKeep
<1>4. CASE DeclinePrune
  <2>1. SelectionTypeOK' /\ cache' = cache
    BY <1>1, <1>4 DEF DeclinePrune, SelectionTypeOK, configuration
  <2> QED
    BY <2>1, QuietStep
<1> QED
  BY <1>2, <1>3, <1>4

LEMMA OtherStepKeeps ==
  ASSUME InductiveInvariant, OtherStep
  PROVE  InductiveInvariant'
<1>1. SelectionTypeOK /\ UNCHANGED <<targetVars, pull>>
  BY DEF InductiveInvariant, TypeOK, OtherStep
<1>2. CASE ConfigurationStep
  BY <1>1, <1>2, ConfigurationType, QuietStep
<1>3. CASE \/ \E t \in Time : SetClock(t)
           \/ \E s \in Settings, v \in Servers : Repoint(s, v)
           \/ \E v \in Policies : Upgrade(v)
  BY <1>1, <1>3, WorldType, QuietStep
<1>4. CASE CacheStep(Leased, Remembered)
  <2>1. CASE \E d \in Databases, i \in Ids : FreshId(i, Remembered) /\ Dump(d, i)
    BY <1>1, <2>1, DumpStep
  <2>2. CASE \E a \in cache : Damage(a)
    BY <1>1, <2>2, DamageStep
  <2>3. CASE \E a \in cache : \E n \in Profiles, d \in Databases : Copy(a, n, d)
    BY <1>1, <2>3, CopyStep
  <2>4. CASE \E wanted \in {Databases} \cup {{d} : d \in Databases} :
               \/ PlanPrune(OlderThan(Retention), wanted)
               \/ \E count \in 1..2 : PlanPrune(KeepLast(count), wanted)
               \/ PlanPrune(Candidates, wanted)
    <3>1. /\ Candidates \in SUBSET cache /\ OlderThan(Retention) \in SUBSET cache
          /\ \A count : KeepLast(count) \in SUBSET cache
      BY DEF Candidates, OlderThan, KeepLast
    <3>2. \E selected \in SUBSET cache, wanted \in SUBSET Databases :
            PlanPrune(selected, wanted)
      BY <2>4, <3>1
    <3> QED
      BY <1>1, <3>2, PruneStep
  <2>5. CASE ExecutePrune(Leased) \/ DeclinePrune
    BY <1>1, <2>5, PruneStep
  <2> QED
    BY <1>4, <2>1, <2>2, <2>3, <2>4, <2>5 DEF CacheStep
<1> QED
  BY <1>2, <1>3, <1>4 DEF OtherStep, SelectionStep

-----------------------------------------------------------------------------
(* The steps of the command, and setup.                                    *)

LEMMA NoPullType ==
  /\ NoPull \in Command
  /\ NoPull.pc = "idle" /\ NoPull.leased = FALSE /\ NoPull.place = NoDump
  BY DEF NoPull, Command

LEMMA DatabaseType == Database \in Databases
  BY DumpAssumption DEF Database

(* A step of the command keeps the invariant if what it knows afterwards   *)
(* fits the directories and the targets.                                   *)
LEMMA CommandKeeps ==
  ASSUME InductiveInvariant, UNCHANGED <<selectionVars, targetVars>>,
         pull' \in Command, HitOutlivesPrunes', ChoiceFits', DumpShape',
         pull'.pc \in {"loaded", "attested", "replaced"} =>
           <<pull'.name, pull'.container>> \in confirmed
  PROVE  InductiveInvariant'
<1>1. UNCHANGED <<now, settings, active, reaches, policy, cache, plan, events>>
  BY DEF selectionVars
<1>2. UNCHANGED <<target, default, docker, confirmed>>
  BY DEF targetVars
<1>3. SelectionTypeOK'
  BY <1>1 DEF InductiveInvariant, TypeOK, SelectionTypeOK
<1>4. TypeOK'
  BY <1>2, <1>3 DEF InductiveInvariant, TypeOK
<1>5. IsFiniteSet(cache') /\ CopiesAgree'
  BY <1>1 DEF InductiveInvariant, CopiesAgree
<1>6. TargetsConfirmed'
  BY <1>2 DEF InductiveInvariant, TargetsConfirmed
<1> QED
  BY <1>4, <1>5, <1>6 DEF InductiveInvariant

(* The same for a step that leaves the choice of the dump behind it.       *)
LEMMA LaterStep ==
  ASSUME InductiveInvariant, UNCHANGED <<selectionVars, targetVars>>,
         pull' \in Command, pull'.pc \notin {"ready", "dumping"},
         pull'.leased => pull.leased /\ pull'.place = pull.place,
         pull'.pc \in {"loaded", "attested", "replaced"} =>
           <<pull'.name, pull'.container>> \in confirmed
  PROVE  InductiveInvariant'
<1>1. HitOutlivesPrunes'
  BY DEF InductiveInvariant, HitOutlivesPrunes, selectionVars
<1>2. ChoiceFits' /\ DumpShape'
  BY DEF ChoiceFits, DumpShape
<1> QED
  BY <1>1, <1>2, CommandKeeps

LEMMA StartPullStep ==
  ASSUME InductiveInvariant, NEW n \in Names, StartPull(n)
  PROVE  InductiveInvariant'
<1> DEFINE q == [NoPull EXCEPT !.pc = "selected", !.profile = active,
                               !.settings = settings[active], !.name = n]
<1>1. active \in Profiles /\ settings[active] \in Settings
  BY DEF InductiveInvariant, TypeOK, SelectionTypeOK, StartPull
<1>2. q \in Command
  BY <1>1, NoPullType, ZenonT(60) DEF Command
<1>3. q.pc = "selected" /\ q.leased = FALSE
  BY NoPullType DEF Command
<1>4. pull' = q /\ UNCHANGED <<selectionVars, targetVars>>
  BY DEF StartPull
<1> HIDE DEF q
<1> QED
  BY <1>2, <1>3, <1>4, LaterStep

LEMMA LookUpStep ==
  ASSUME InductiveInvariant, LookUp
  PROVE  InductiveInvariant'
<1>1. pull \in Command /\ CacheOK /\ UNCHANGED <<selectionVars, targetVars>>
  BY CacheIsOK DEF InductiveInvariant, TypeOK, LookUp
<1>2. CASE \E a \in Lookup(pull.profile, Database, pull.settings) :
             pull' = [pull EXCEPT !.pc = "ready", !.place = a.place, !.leased = TRUE]
  <2>1. PICK a \in Lookup(pull.profile, Database, pull.settings) :
          pull' = [pull EXCEPT !.pc = "ready", !.place = a.place, !.leased = TRUE]
    BY <1>2
  <2>2. a \in cache /\ Reusable(a, pull.settings)
    BY DEF Lookup
  <2>3. a.place \in Place
    BY <1>1, <2>2 DEF CacheOK, Artifact
  <2>4. /\ pull' \in Command /\ pull'.pc = "ready" /\ pull'.place = a.place
        /\ pull'.settings = pull.settings
    BY <1>1, <2>1, <2>3 DEF Command
  <2>5. cache' = cache
    BY <1>1 DEF selectionVars
  <2>6. HitOutlivesPrunes'
    BY <2>2, <2>4, <2>5 DEF HitOutlivesPrunes
  <2>7. ChoiceFits'
    <3>1. \A b \in cache : b.place.id = a.place.id =>
            b.metadata.settings = pull.settings /\ b.metadata.place = a.place
      BY <1>1, <2>2 DEF CacheOK, CopiesAgree, Reusable, Identified
    <3> QED
      BY <2>3, <2>4, <2>5, <3>1 DEF ChoiceFits
  <2>8. DumpShape'
    BY <2>4 DEF DumpShape
  <2> QED
    BY <1>1, <2>4, <2>6, <2>7, <2>8, CommandKeeps
<1>3. CASE pull' = [pull EXCEPT !.pc = "missed"]
  <2>1. /\ pull' \in Command /\ pull'.pc = "missed" /\ pull'.leased = pull.leased
        /\ pull'.place = pull.place
    BY <1>1, <1>3 DEF Command
  <2> QED
    BY <1>1, <2>1, LaterStep
<1> QED
  BY <1>2, <1>3 DEF LookUp

LEMMA StartDumpStep ==
  ASSUME InductiveInvariant, StartDump
  PROVE  InductiveInvariant'
<1> DEFINE q == [pull EXCEPT !.pc = "dumping", !.profile = active,
                             !.settings = settings[active],
                             !.server = Preflight(settings[active])]
<1>1. pull \in Command /\ active \in Profiles /\ settings[active] \in Settings
      /\ Preflight(settings[active]) \in Servers
  BY DEF InductiveInvariant, TypeOK, SelectionTypeOK, StartDump, Preflight
<1>2. /\ q \in Command /\ q.pc = "dumping" /\ q.profile \in Profiles
      /\ q.settings \in Settings /\ q.server \in Servers
      /\ q.leased = pull.leased /\ q.place = pull.place
  BY <1>1 DEF Command
<1>3. pull' = q /\ UNCHANGED <<selectionVars, targetVars>>
  BY DEF StartDump
<1> HIDE DEF q
<1>4. HitOutlivesPrunes'
  BY <1>2, <1>3 DEF InductiveInvariant, HitOutlivesPrunes, selectionVars
<1>5. ChoiceFits' /\ DumpShape'
  BY <1>2, <1>3 DEF ChoiceFits, DumpShape
<1> QED
  BY <1>2, <1>3, <1>4, <1>5, CommandKeeps

LEMMA FinishDumpStep ==
  ASSUME InductiveInvariant, NEW i \in Ids, FinishDump(i)
  PROVE  InductiveInvariant'
<1> DEFINE a == NewArtifact(pull.profile, pull.settings, Database, i,
                            pull.server, reaches[pull.settings])
<1>1. SelectionTypeOK /\ CacheOK /\ pull \in Command
  BY CacheIsOK DEF InductiveInvariant, TypeOK
<1>2. /\ pull.profile \in Profiles /\ pull.settings \in Settings
      /\ pull.server \in Servers /\ reaches[pull.settings] \in Servers
  BY <1>1 DEF InductiveInvariant, DumpShape, FinishDump, At, SelectionTypeOK
<1>3. /\ a \in Artifact /\ a.place \in Place /\ a.place.id = i
      /\ a.metadata.settings = pull.settings /\ a.metadata.place = a.place
  BY <1>1, <1>2, NewArtifactFields, DatabaseType
<1>4. /\ cache' = cache \cup {a} /\ plan' = plan /\ events' = events
      /\ UNCHANGED <<now, configuration, reaches, policy>>
      /\ UNCHANGED targetVars
  BY DEF FinishDump
<1>5. pull' = [pull EXCEPT !.pc = "ready", !.place = a.place]
  BY DEF FinishDump
<1> HIDE DEF a
<1>6. \A x \in cache : x.place.id # a.place.id
  BY <1>3 DEF FinishDump, FreshId
<1>7. CacheOK'
  BY <1>1, <1>3, <1>4, <1>6, NewDump
<1>8. SelectionTypeOK'
  BY <1>1, <1>4, <1>7, DirectoriesType DEF SelectionTypeOK
<1>9. /\ pull' \in Command /\ pull'.pc = "ready" /\ pull'.place = a.place
      /\ pull'.settings = pull.settings
  BY <1>1, <1>3, <1>5 DEF Command
<1>10. TypeOK'
  BY <1>4, <1>8, <1>9 DEF InductiveInvariant, TypeOK, targetVars
<1>11. HitOutlivesPrunes' /\ DumpShape'
  BY <1>4, <1>9 DEF HitOutlivesPrunes, DumpShape
<1>12. ChoiceFits'
  BY <1>3, <1>4, <1>6, <1>9 DEF ChoiceFits
<1>13. TargetsConfirmed'
  BY <1>4, <1>9 DEF InductiveInvariant, TargetsConfirmed, targetVars
<1> QED
  BY <1>7, <1>10, <1>11, <1>12, <1>13 DEF InductiveInvariant, CacheOK

LEMMA StartRestoreStep ==
  ASSUME InductiveInvariant, NEW a \in cache, NEW n \in Names \cup {NoName},
         StartRestore(a, n)
  PROVE  InductiveInvariant'
<1> DEFINE q == [NoPull EXCEPT !.pc = "ready", !.name = n, !.place = a.place,
                               !.settings = a.metadata.settings]
<1>1. CacheOK /\ a.place \in Place /\ a.metadata.settings \in Settings
  BY CacheIsOK, ArtifactNumbers DEF InductiveInvariant, TypeOK
<1>2. /\ q \in Command /\ q.pc = "ready" /\ q.leased = FALSE
      /\ q.place = a.place /\ q.settings = a.metadata.settings
      /\ q.profile = NoProfile
  BY <1>1, NoPullType DEF Command, NoPull
<1>3. pull' = q /\ UNCHANGED <<selectionVars, targetVars>>
  BY DEF StartRestore
<1> HIDE DEF q
<1>4. cache' = cache
  BY <1>3 DEF selectionVars
<1>5. ChoiceFits'
  BY <1>1, <1>2, <1>3, <1>4 DEF ChoiceFits, CacheOK, CopiesAgree
<1>6. HitOutlivesPrunes' /\ DumpShape'
  BY <1>2, <1>3 DEF HitOutlivesPrunes, DumpShape
<1> QED
  BY <1>2, <1>3, <1>5, <1>6, CommandKeeps

LEMMA ValidateStep ==
  ASSUME InductiveInvariant, ValidateArtifact
  PROVE  InductiveInvariant'
<1>1. pull \in Command /\ CacheOK /\ UNCHANGED <<selectionVars, targetVars>>
  BY CacheIsOK DEF InductiveInvariant, TypeOK, ValidateArtifact
<1>2. PICK a \in Validated(pull.place.id, Database) :
        pull' = [pull EXCEPT !.pc = "validated", !.artifact = a,
                             !.place = a.place, !.leased = TRUE]
  BY DEF ValidateArtifact
<1>3. a \in cache
  BY DEF Validated
<1>4. a \in Artifact /\ a.place \in Place
  BY <1>1, <1>3 DEF CacheOK, Artifact
<1>5. pull' \in Command /\ pull'.pc = "validated" /\ pull'.place = a.place
  BY <1>1, <1>2, <1>4 DEF Command
<1>6. HitOutlivesPrunes'
  BY <1>1, <1>3, <1>5 DEF HitOutlivesPrunes, selectionVars
<1>7. ChoiceFits' /\ DumpShape'
  BY <1>5 DEF ChoiceFits, DumpShape
<1> QED
  BY <1>1, <1>5, <1>6, <1>7, CommandKeeps

LEMMA LoadTargetStep ==
  ASSUME InductiveInvariant, LoadTarget
  PROVE  InductiveInvariant'
<1> DEFINE n == Named(pull.name)
<1>1. pull \in Command /\ UNCHANGED <<selectionVars, targetVars>>
  BY DEF InductiveInvariant, TypeOK, LoadTarget
<1>2. /\ n \in Names /\ target[n] # NoContainer
      /\ target[n] \in Containers \cup {NoContainer}
  BY DEF LoadTarget, Configured, InductiveInvariant, TypeOK
<1>3. pull' = [pull EXCEPT !.pc = "loaded", !.name = n, !.container = target[n]]
  BY DEF LoadTarget
<1>4. <<n, target[n]>> \in confirmed
  BY <1>2 DEF InductiveInvariant, TargetsConfirmed
<1> HIDE DEF n
<1>5. /\ pull' \in Command /\ pull'.pc = "loaded" /\ pull'.name = n
      /\ pull'.container = target[n] /\ pull'.leased = pull.leased
      /\ pull'.place = pull.place
  BY <1>1, <1>2, <1>3 DEF Command
<1> QED
  BY <1>1, <1>4, <1>5, LaterStep

LEMMA AttestStep ==
  ASSUME InductiveInvariant, AttestTarget \/ Replace
  PROVE  InductiveInvariant'
<1>1. /\ pull \in Command /\ UNCHANGED <<selectionVars, targetVars>>
      /\ pull.pc \in {"loaded", "attested"}
  BY DEF InductiveInvariant, TypeOK, AttestTarget, Replace, At
<1>2. PICK label \in {"attested", "replaced"} : pull' = [pull EXCEPT !.pc = label]
  BY DEF AttestTarget, Replace
<1>3. /\ pull' \in Command /\ pull'.pc = label /\ pull'.name = pull.name
      /\ pull'.container = pull.container /\ pull'.leased = pull.leased
      /\ pull'.place = pull.place
  BY <1>1, <1>2 DEF Command
<1>4. <<pull'.name, pull'.container>> \in confirmed
  BY <1>1, <1>3 DEF InductiveInvariant, TargetsConfirmed
<1> QED
  BY <1>1, <1>3, <1>4, LaterStep

LEMMA EndStep ==
  ASSUME InductiveInvariant, EndPull
  PROVE  InductiveInvariant'
<1>1. pull' = NoPull /\ UNCHANGED <<selectionVars, targetVars>>
  BY DEF EndPull
<1> QED
  BY <1>1, NoPullType, LaterStep

LEMMA PullStepKeeps ==
  ASSUME InductiveInvariant, PullStep
  PROVE  InductiveInvariant'
<1>1. CASE \E n \in Names : StartPull(n)
  BY <1>1, StartPullStep
<1>2. CASE LookUp \/ StartDump
  BY <1>2, LookUpStep, StartDumpStep
<1>3. CASE \E i \in Ids : FinishDump(i)
  BY <1>3, FinishDumpStep
<1>4. CASE \E a \in cache, n \in Names \cup {NoName} : StartRestore(a, n)
  BY <1>4, StartRestoreStep
<1>5. CASE ValidateArtifact \/ LoadTarget
  BY <1>5, ValidateStep, LoadTargetStep
<1>6. CASE AttestTarget \/ Replace \/ EndPull
  BY <1>6, AttestStep, EndStep
<1> QED
  BY <1>1, <1>2, <1>3, <1>4, <1>5, <1>6 DEF PullStep

(* The directories are left alone by setups and containers. *)
LEMMA SetupStep ==
  ASSUME InductiveInvariant, NEW n \in Names, Setup(n)
  PROVE  InductiveInvariant'
<1>1. SelectionTypeOK /\ CacheOK
  BY CacheIsOK DEF InductiveInvariant, TypeOK
<1>2. /\ UNCHANGED <<now, settings, active, reaches, policy, cache, plan>>
      /\ docker' = docker /\ pull' = pull
      /\ target' = [target EXCEPT ![n] = docker[n]] /\ default' = n
      /\ confirmed' = confirmed \cup {<<n, docker[n]>>}
  BY DEF Setup, configuration
<1>3. docker[n] # NoContainer /\ docker[n] \in Containers
  BY DEF Setup, Discovered, InductiveInvariant, TypeOK, Worlds
<1>4. events' \in 0..MaxEvents
  BY <1>1, EventType DEF Setup
<1>5. SelectionTypeOK'
  BY <1>1, <1>2, <1>4 DEF SelectionTypeOK
<1>6. /\ target' \in [Names -> Containers \cup {NoContainer}]
      /\ target'[n] = docker[n]
      /\ \A m \in Names \ {n} : target'[m] = target[m]
  BY <1>2, <1>3 DEF InductiveInvariant, TypeOK
<1>7. /\ default' \in {m \in Names : target'[m] # NoContainer} \cup {NoName}
      /\ docker' \in Worlds /\ confirmed' \subseteq Names \X Containers
      /\ pull' \in Command
  BY <1>2, <1>3, <1>6 DEF InductiveInvariant, TypeOK
<1>8. TypeOK'
  BY <1>5, <1>6, <1>7 DEF TypeOK
<1>9. IsFiniteSet(cache') /\ CopiesAgree'
  BY <1>1, <1>2 DEF CacheOK, CopiesAgree
<1>10. HitOutlivesPrunes' /\ ChoiceFits' /\ DumpShape'
  BY <1>2 DEF InductiveInvariant, HitOutlivesPrunes, ChoiceFits, DumpShape
<1>11. TargetsConfirmed'
  BY <1>2, <1>6 DEF InductiveInvariant, TargetsConfirmed
<1> QED
  BY <1>8, <1>9, <1>10, <1>11 DEF InductiveInvariant

LEMMA ContainersStep ==
  ASSUME InductiveInvariant, NEW f \in Worlds, ChangeContainers(f)
  PROVE  InductiveInvariant'
<1>1. SelectionTypeOK /\ CacheOK
  BY CacheIsOK DEF InductiveInvariant, TypeOK
<1>2. /\ UNCHANGED <<now, settings, active, reaches, policy, cache, plan>>
      /\ UNCHANGED <<target, default, confirmed, pull>> /\ docker' \in Worlds
  BY DEF ChangeContainers, configuration
<1>3. SelectionTypeOK'
  BY <1>1, <1>2, EventType DEF ChangeContainers, SelectionTypeOK
<1>4. TypeOK'
  BY <1>2, <1>3 DEF InductiveInvariant, TypeOK
<1>5. IsFiniteSet(cache') /\ CopiesAgree'
  BY <1>1, <1>2 DEF CacheOK, CopiesAgree
<1>6. HitOutlivesPrunes' /\ ChoiceFits' /\ DumpShape' /\ TargetsConfirmed'
  BY <1>2 DEF InductiveInvariant, HitOutlivesPrunes, ChoiceFits, DumpShape,
              TargetsConfirmed
<1> QED
  BY <1>4, <1>5, <1>6 DEF InductiveInvariant

LEMMA NextKeeps ==
  ASSUME InductiveInvariant, [Next]_vars
  PROVE  InductiveInvariant'
<1>1. CASE PullStep
  BY <1>1, PullStepKeeps
<1>2. CASE TargetStep
  BY <1>2, SetupStep, ContainersStep DEF TargetStep
<1>3. CASE OtherStep
  BY <1>3, OtherStepKeeps
<1>4. CASE UNCHANGED vars
  <2>1. SelectionTypeOK' /\ cache' = cache /\ UNCHANGED <<targetVars, pull>>
    BY <1>4 DEF InductiveInvariant, TypeOK, SelectionTypeOK, vars, selectionVars
  <2> QED
    BY <2>1, QuietStep
<1> QED
  BY <1>1, <1>2, <1>3, <1>4 DEF Next

LEMMA InitKeeps ==
  ASSUME Init
  PROVE  InductiveInvariant
<1>1. SelectionTypeOK
  <2>1. \A n \in Profiles : settings[n] # NoSettings
    BY SettingsAssumption DEF Init, SelectionInit
  <2>2. reaches \in [Settings -> Servers]
    BY DEF Init, SelectionInit
  <2>3. events \in 0..MaxEvents
    BY NumbersAssumption DEF Init, SelectionInit
  <2> QED
    BY <2>1, <2>2, <2>3 DEF Init, SelectionInit, SelectionTypeOK
<1>2. \A n \in Names : docker[n] \in Containers /\ docker[n] # NoContainer
  BY DEF Init, Worlds
<1>3. /\ target \in [Names -> Containers \cup {NoContainer}]
      /\ default \in {n \in Names : target[n] # NoContainer} \cup {NoName}
      /\ confirmed \subseteq Names \X Containers
      /\ \A n \in Names : target[n] # NoContainer => <<n, target[n]>> \in confirmed
  <2>1. CASE target = docker
    BY <1>2, <2>1 DEF Init, Worlds
  <2>2. CASE target = [n \in Names |-> NoContainer]
    BY <1>2, <2>2 DEF Init
  <2> QED
    BY <2>1, <2>2 DEF Init
<1>4. docker \in Worlds /\ pull = NoPull /\ cache = {}
  BY DEF Init, SelectionInit
<1>5. TypeOK
  BY <1>1, <1>3, <1>4, NoPullType DEF TypeOK
<1>6. IsFiniteSet(cache) /\ CopiesAgree
  BY <1>4, FS_EmptySet DEF CopiesAgree
<1>7. HitOutlivesPrunes /\ ChoiceFits /\ DumpShape /\ TargetsConfirmed
  BY <1>3, <1>4, NoPullType DEF HitOutlivesPrunes, ChoiceFits, DumpShape,
                                 TargetsConfirmed
<1> QED
  BY <1>5, <1>6, <1>7 DEF InductiveInvariant

-----------------------------------------------------------------------------
(* Theorems.                                                               *)

(* Over any steps of a pull or restore, of other commands, of the users of *)
(* the cache and of Docker.                                                *)
THEOREM InvariantHolds == Spec => []InductiveInvariant
<1>1. Init => InductiveInvariant
  BY InitKeeps
<1>2. InductiveInvariant /\ [Next]_vars => InductiveInvariant'
  BY NextKeeps
<1> QED
  BY <1>1, <1>2, PTL DEF Spec

(* The type invariant. *)
THEOREM TypeCorrect == Spec => []TypeOK
<1>1. InductiveInvariant => TypeOK
  BY DEF InductiveInvariant
<1> QED
  BY <1>1, InvariantHolds, PTL

(* A prune takes neither the dump a pull has a hit on nor the one it is    *)
(* restoring: its place has a directory while the lease is held.           *)
THEOREM HitsHold == Spec => []HitOutlivesPrunes
<1>1. InductiveInvariant => HitOutlivesPrunes
  BY DEF InductiveInvariant
<1> QED
  BY <1>1, InvariantHolds, PTL

(* `cache list` shows a ready dump exactly when a pull has a hit, which is *)
(* one dump and none of the ready ones is newer.                           *)
THEOREM ReadyHolds == Spec => []ReadyIsReused
<1>1. InductiveInvariant => ReadyIsReused
  BY ReadyIsReusedHere DEF InductiveInvariant, TypeOK
<1> QED
  BY <1>1, InvariantHolds, PTL

(* What a restore accepts the list shows without a defect, and what the    *)
(* list shows so a restore refuses only if the metadata contradicts the    *)
(* SQL in the dump, which the list does not decompress.                    *)
THEOREM SoundHolds == Spec => []SoundIsRestorable
<1>1. InductiveInvariant => SoundIsRestorable
  BY SoundIsRestorableHere DEF InductiveInvariant, TypeOK
<1> QED
  BY <1>1, InvariantHolds, PTL

(* A prune without flags takes what the list shows as prunable, and        *)
(* nothing it shows as ready, stale or from the future.  Of dumps the list *)
(* shows as damaged or changed it may take old ones too.                   *)
THEOREM DefaultPruneHolds == Spec => []DefaultPruneMatchesList
<1>1. InductiveInvariant => DefaultPruneMatchesList
  BY DefaultPruneMatchesListHere DEF InductiveInvariant, TypeOK
<1> QED
  BY <1>1, InvariantHolds, PTL

(* --keep-last leaves the newest of every profile and database.            *)
THEOREM KeepLastHolds == Spec => []KeepLastKeeps
<1>1. InductiveInvariant => KeepLastKeeps
  BY KeepLastKeepsHere DEF InductiveInvariant, TypeOK
<1> QED
  BY <1>1, InvariantHolds, PTL

(* A step that validates the dump is ValidateArtifact. *)
LEMMA ValidatingStep ==
  ASSUME TypeOK, [Next]_vars, pull.pc = "ready", pull'.pc = "validated"
  PROVE  ValidateArtifact
<1>1. PullStep
  BY DEF Next, TargetStep, Setup, ChangeContainers, OtherStep, vars
<1> QED
  BY <1>1, NoPullType DEF PullStep, StartPull, LookUp, StartDump, FinishDump,
       StartRestore, LoadTarget, AttestTarget, Replace, EndPull, At

(* A step that replaces the database is Replace. *)
LEMMA ReplacingStep ==
  ASSUME TypeOK, [Next]_vars, Replaced
  PROVE  Replace
<1>1. PullStep
  BY DEF Next, TargetStep, Setup, ChangeContainers, OtherStep, vars, Replaced
<1> QED
  BY <1>1, NoPullType DEF PullStep, StartPull, LookUp, StartDump, FinishDump,
       StartRestore, ValidateArtifact, LoadTarget, AttestTarget, EndPull, At, Replaced

(* A pull restores the dump it has dumped or had a hit on, whole and taken *)
(* with its settings, whatever happened to the cache meanwhile.            *)
THEOREM ItsDumpHolds == Spec => RestoresItsDump
<1>1. ASSUME InductiveInvariant, [Next]_vars, pull.pc = "ready", pull'.pc = "validated"
      PROVE  /\ pull'.place.id = pull.place.id
             /\ pull.profile # NoProfile => pull'.place = pull.place
             /\ pull'.artifact \in cache
             /\ pull'.artifact.dump = "intact"
             /\ pull'.artifact.file = "readable" /\ Identified(pull'.artifact)
             /\ pull'.artifact.metadata.settings = pull.settings
  <2>1. TypeOK /\ ChoiceFits /\ pull \in Command
    BY <1>1 DEF InductiveInvariant, TypeOK
  <2>2. PICK a \in Validated(pull.place.id, Database) :
          pull' = [pull EXCEPT !.pc = "validated", !.artifact = a,
                               !.place = a.place, !.leased = TRUE]
    BY <1>1, <2>1, ValidatingStep DEF ValidateArtifact
  <2>3. /\ a \in cache /\ a.place.id = pull.place.id
        /\ Identified(a) /\ a.dump = "intact" /\ a.file = "readable"
    BY DEF Validated, Identified, HasMetadata
  <2>4. pull'.place = a.place /\ pull'.artifact = a
    BY <2>1, <2>2 DEF Command
  <2>5. /\ a.metadata.settings = pull.settings
        /\ pull.profile # NoProfile => a.metadata.place = pull.place
    BY <1>1, <2>1, <2>3 DEF ChoiceFits
  <2>6. a.metadata.place = a.place
    BY <2>3 DEF Identified
  <2> QED
    BY <2>3, <2>4, <2>5, <2>6
<1>2. InductiveInvariant /\ [Next]_vars =>
        [pull.pc = "ready" /\ pull'.pc = "validated" =>
           /\ pull'.place.id = pull.place.id
           /\ pull.profile # NoProfile => pull'.place = pull.place
           /\ pull'.artifact \in cache
           /\ pull'.artifact.dump = "intact"
           /\ pull'.artifact.file = "readable" /\ Identified(pull'.artifact)
           /\ pull'.artifact.metadata.settings = pull.settings]_vars
  BY <1>1
<1> QED
  BY <1>2, InvariantHolds, PTL DEF Spec, RestoresItsDump

(* Only a container that a setup has verified under the chosen name is     *)
(* replaced, while it runs.                                                *)
THEOREM ConfirmedHolds == Spec => ReplacesConfirmed
<1>1. ASSUME InductiveInvariant, [Next]_vars, Replaced
      PROVE  /\ <<pull.name, pull.container>> \in confirmed
             /\ \E n \in Names : docker[n] = pull.container
  <2>1. Replace
    BY <1>1, ReplacingStep DEF InductiveInvariant
  <2> QED
    BY <1>1, <2>1 DEF InductiveInvariant, TargetsConfirmed, Replace, Answers, At
<1>2. InductiveInvariant /\ [Next]_vars =>
        [Replaced => /\ <<pull.name, pull.container>> \in confirmed
                     /\ \E n \in Names : docker[n] = pull.container]_vars
  BY <1>1
<1> QED
  BY <1>2, InvariantHolds, PTL DEF Spec, ReplacesConfirmed
=============================================================================
