---------------------------- MODULE RulesProofs ----------------------------
(* Proofs about what MCRules checks: the preference among approved candidates*)
(* and the decision over them (ArbitrationOrder, ArbitrationRules), Lidarr's *)
(* catalogue while releases are ensured in it (Catalog), the setup of a       *)
(* deployment (Reconcile), the plan of an unmanaged release (SubmissionPlan),*)
(* the comparison with a release (ReleaseMatch) and the search for one       *)
(* (ReleaseIdentity).  Each part stands by itself.                           *)
EXTENDS MCRules, FiniteSetTheorems, SequenceTheorems, WellFoundedInduction, TLAPS

-----------------------------------------------------------------------------
(* The preference (ArbitrationOrder): a strict total order, for all quality  *)
(* vectors, completion times and identifiers.  Arbitration relies on it:     *)
(* sorting has one result, every call that decides over the same approvals   *)
(* names the same winner, and Place (Arbitration.tla) exists.                *)

\* The merit of a quality on each rank is an integer.
LEMMA MeritType ==
  ASSUME NEW q \in QualityVectors, NEW i \in Ranks
  PROVE  Merit(q, i) \in Int
BY DEF QualityVectors, Merit

\* Two qualities of which neither is better agree on every rank.
LEMMA SameQualityAgrees ==
  ASSUME NEW left \in QualityVectors, NEW right \in QualityVectors
  PROVE  SameQuality(left, right) <=> \A i \in Ranks : Merit(left, i) = Merit(right, i)
<1> DEFINE l(i) == Merit(left, i)
           r(i) == Merit(right, i)
<1>1. \A i \in Ranks : l(i) \in Int /\ r(i) \in Int
  BY MeritType
<1>2. SameQuality(left, right) <=>
        \A i \in Ranks : (\A j \in Ranks : j < i => l(j) = r(j)) => ~(l(i) > r(i)) /\ ~(r(i) > l(i))
  BY DEF SameQuality, BetterQuality
<1> HIDE DEF l, r
<1>3. SameQuality(left, right) <=>
        \A i \in Ranks : (\A j \in Ranks : j < i => l(j) = r(j)) => l(i) = r(i)
  BY <1>1, <1>2
<1>4. ASSUME SameQuality(left, right) PROVE \A i \in Ranks : l(i) = r(i)
  <2>1. l(1) = r(1)
    BY <1>3, <1>4 DEF Ranks
  <2>2. l(2) = r(2)
    BY <1>3, <1>4, <2>1 DEF Ranks
  <2>3. l(3) = r(3)
    BY <1>3, <1>4, <2>1, <2>2 DEF Ranks
  <2>4. l(4) = r(4)
    BY <1>3, <1>4, <2>1, <2>2, <2>3 DEF Ranks
  <2>5. l(5) = r(5)
    BY <1>3, <1>4, <2>1, <2>2, <2>3, <2>4 DEF Ranks
  <2>6. l(6) = r(6)
    BY <1>3, <1>4, <2>1, <2>2, <2>3, <2>4, <2>5 DEF Ranks
  <2>7. \A i \in Ranks : i \in {1, 2, 3, 4, 5, 6}
    BY DEF Ranks
  <2> QED BY <2>1, <2>2, <2>3, <2>4, <2>5, <2>6, <2>7
<1> QED BY <1>3, <1>4 DEF l, r

\* Being better is transitive among qualities, and excludes being worse.
LEMMA BetterQualityOrder ==
  ASSUME NEW a \in QualityVectors, NEW b \in QualityVectors, BetterQuality(a, b)
  PROVE  /\ ~BetterQuality(b, a)
         /\ \A c \in QualityVectors : BetterQuality(b, c) => BetterQuality(a, c)
<1>1. PICK i \in Ranks : /\ Merit(a, i) > Merit(b, i)
                         /\ \A j \in Ranks : j < i => Merit(a, j) = Merit(b, j)
  BY DEF BetterQuality
<1>2. i \in Nat /\ \A j \in Ranks : j \in Nat
  BY DEF Ranks
<1>3. ~BetterQuality(b, a)
  <2>1. ASSUME NEW j \in Ranks, Merit(b, j) > Merit(a, j),
               \A m \in Ranks : m < j => Merit(b, m) = Merit(a, m)
        PROVE  FALSE
    <3>1. j < i \/ i < j \/ i = j
      BY <1>2
    <3> QED BY <1>1, <2>1, <3>1, MeritType
  <2> QED BY <2>1 DEF BetterQuality
<1>4. ASSUME NEW c \in QualityVectors, BetterQuality(b, c)
      PROVE  BetterQuality(a, c)
  <2>1. PICK j \in Ranks : /\ Merit(b, j) > Merit(c, j)
                           /\ \A m \in Ranks : m < j => Merit(b, m) = Merit(c, m)
    BY <1>4 DEF BetterQuality
  <2>2. \A m \in Ranks : Merit(a, m) \in Int /\ Merit(b, m) \in Int /\ Merit(c, m) \in Int
    BY MeritType
  <2>3. CASE i <= j
    <3>1. Merit(a, i) > Merit(c, i)
      BY <1>1, <1>2, <2>1, <2>2, <2>3
    <3>2. \A m \in Ranks : m < i => Merit(a, m) = Merit(c, m)
      BY <1>1, <1>2, <2>1, <2>3
    <3> QED BY <3>1, <3>2 DEF BetterQuality
  <2>4. CASE j < i
    <3>1. Merit(a, j) > Merit(c, j)
      BY <1>1, <2>1, <2>2, <2>4
    <3>2. \A m \in Ranks : m < j => Merit(a, m) = Merit(c, m)
      BY <1>1, <1>2, <2>1, <2>4
    <3> QED BY <3>1, <3>2 DEF BetterQuality
  <2> QED BY <1>2, <2>3, <2>4
<1> QED BY <1>3, <1>4

\* Agreement passes along, and a quality that agrees with one beats what it beats.
LEMMA SameQualityCongruence ==
  ASSUME NEW a \in QualityVectors, NEW b \in QualityVectors, NEW c \in QualityVectors
  PROVE  /\ SameQuality(a, b) /\ SameQuality(b, c) => SameQuality(a, c)
         /\ SameQuality(a, b) /\ BetterQuality(b, c) => BetterQuality(a, c)
         /\ BetterQuality(a, b) /\ SameQuality(b, c) => BetterQuality(a, c)
BY SameQualityAgrees DEF BetterQuality

-----------------------------------------------------------------------------
\* Two approved candidates with different identifiers are never tied: exactly
\* one of them is better.  This makes the winner unique.
THEOREM BetterTotal ==
  ASSUME NEW a \in Approved, NEW b \in Approved, a.id # b.id
  PROVE  Better(a, b) <=> ~Better(b, a)
<1>1. a.quality \in QualityVectors /\ b.quality \in QualityVectors
  BY DEF Approved
<1>2. /\ a.id \in Nat /\ b.id \in Nat /\ a.completionAt \in Nat /\ b.completionAt \in Nat
      /\ a.source \in {"slskd", "spotiflac"} /\ b.source \in {"slskd", "spotiflac"}
  BY DEF Approved, Sources
<1>3. CASE SameQuality(a.quality, b.quality)
  <2>1. SameQuality(b.quality, a.quality)
    BY <1>3 DEF SameQuality
  <2> QED BY <1>2, <1>3, <2>1 DEF Better, SourcePriority
<1>4. CASE ~SameQuality(a.quality, b.quality)
  <2>1. ~SameQuality(b.quality, a.quality)
    BY <1>4 DEF SameQuality
  <2>2. BetterQuality(a.quality, b.quality) <=> ~BetterQuality(b.quality, a.quality)
    BY <1>1, <1>4, BetterQualityOrder DEF SameQuality
  <2> QED BY <1>4, <2>1, <2>2 DEF Better
<1> QED BY <1>3, <1>4

\* Being better is transitive: comparing in pairs, in any order, finds the same
\* best candidate.
THEOREM BetterTransitive ==
  ASSUME NEW a \in Approved, NEW b \in Approved, NEW c \in Approved,
         Better(a, b), Better(b, c)
  PROVE  Better(a, c)
<1>1. \A x \in {a, b, c} :
        /\ x.quality \in QualityVectors /\ x.id \in Nat /\ x.completionAt \in Nat
        /\ x.source \in {"slskd", "spotiflac"}
  BY DEF Approved, Sources
<1>2. CASE SameQuality(a.quality, b.quality) /\ SameQuality(b.quality, c.quality)
  <2>1. SameQuality(a.quality, c.quality)
    BY <1>1, <1>2, SameQualityCongruence
  <2> QED BY <1>1, <1>2, <2>1 DEF Better, SourcePriority
<1>3. CASE ~(SameQuality(a.quality, b.quality) /\ SameQuality(b.quality, c.quality))
  <2>1. /\ ~SameQuality(a.quality, b.quality) => BetterQuality(a.quality, b.quality)
        /\ ~SameQuality(b.quality, c.quality) => BetterQuality(b.quality, c.quality)
    BY DEF Better
  <2>2. BetterQuality(a.quality, c.quality)
    BY <1>1, <1>3, <2>1, SameQualityCongruence, BetterQualityOrder
  <2> QED BY <2>2 DEF Better, SameQuality
<1> QED BY <1>2, <1>3

-----------------------------------------------------------------------------
(* The decision (ArbitrationRules) *)

\* A set of which the elements come before one another in one order.
LEMMA InOrderPlaces ==
  ASSUME NEW S, IsFiniteSet(S), NEW before \in [S -> SUBSET S],
         \A c \in S : c \notin before[c],
         \A c \in S, d \in S : c # d => c \in before[d] \/ d \in before[c],
         \A b \in S, c \in S, d \in S : b \in before[c] /\ c \in before[d] => b \in before[d]
  PROVE  LET n == Cardinality(S)
             places == InOrder(before)
         IN  /\ n \in Nat /\ places \in [1..n -> S]
             /\ \A c \in S : \E i \in 1..n : places[i] = c
             /\ \A i \in 1..n, j \in 1..n : i < j => places[i] \in before[places[j]]
<1> DEFINE n == Cardinality(S)
           rank == [c \in S |-> Cardinality(before[c])]
           places == InOrder(before)
<1>1. n \in Nat
  BY FS_CardinalityType
<1>2. ASSUME NEW c \in S
      PROVE  IsFiniteSet(before[c]) /\ rank[c] \in 0..(n - 1)
  <2>1. before[c] \in SUBSET S /\ before[c] # S
    OBVIOUS
  <2>2. IsFiniteSet(before[c]) /\ Cardinality(before[c]) <= n /\ Cardinality(before[c]) # n
    BY <2>1, FS_Subset
  <2>3. Cardinality(before[c]) \in Nat
    BY <2>2, FS_CardinalityType
  <2> QED BY <1>1, <2>2, <2>3
<1>3. ASSUME NEW c \in S, NEW d \in S, c \in before[d]
      PROVE  rank[c] < rank[d]
  <2>1. before[c] \in SUBSET before[d] /\ before[c] # before[d]
    BY <1>3
  <2>2. Cardinality(before[c]) <= Cardinality(before[d]) /\ Cardinality(before[c]) # Cardinality(before[d])
    BY <1>2, <2>1, FS_Subset
  <2>3. rank[c] = Cardinality(before[c]) /\ rank[d] = Cardinality(before[d])
    OBVIOUS
  <2> QED BY <1>1, <1>2, <2>2, <2>3
<1>4. \A c \in S : rank[c] \in 0..(n - 1) /\ IsFiniteSet(before[c])
  BY <1>2
<1>5. \A c \in S, d \in S : c \in before[d] => rank[c] < rank[d]
  BY <1>3
<1>6. rank \in [S -> 0..(n - 1)]
  BY <1>4
<1>7. DOMAIN before = S /\ \A c \in S : Cardinality(before[c]) = rank[c]
  OBVIOUS
<1> HIDE DEF rank
<1>8. \A c \in S, d \in S : rank[c] = rank[d] => c = d
  BY <1>1, <1>4, <1>5
<1>9. \A k \in 0..(n - 1) : \E c \in S : rank[c] = k
  <2>1. rank \in Injection(S, 0..(n - 1))
    BY <1>6, <1>8 DEF Injection, IsInjective
  <2>2. IsFiniteSet(0..(n - 1)) /\ Cardinality(0..(n - 1)) = n
    BY <1>1, FS_Interval
  <2>3. rank \in Surjection(S, 0..(n - 1))
    BY <2>1, <2>2, FS_Injection
  <2> QED BY <2>3 DEF Surjection
<1>10. places = [i \in 1..n |-> CHOOSE c \in S : rank[c] = i - 1]
  BY <1>7 DEF InOrder
<1> HIDE DEF places
<1>11. ASSUME NEW i \in 1..n PROVE places[i] \in S /\ rank[places[i]] = i - 1
  <2>1. i - 1 \in 0..(n - 1)
    BY <1>1
  <2>2. \E c \in S : rank[c] = i - 1
    BY <1>9, <2>1
  <2>3. places[i] = CHOOSE c \in S : rank[c] = i - 1
    BY <1>10
  <2> QED BY <2>2, <2>3
<1>12. places \in [1..n -> S]
  BY <1>10, <1>11
<1>13. ASSUME NEW c \in S PROVE \E i \in 1..n : places[i] = c
  <2>1. rank[c] + 1 \in 1..n /\ (rank[c] + 1) - 1 = rank[c]
    BY <1>1, <1>4
  <2>2. rank[places[rank[c] + 1]] = rank[c]
    BY <1>11, <2>1
  <2> QED BY <1>8, <1>11, <2>1, <2>2
<1>14. ASSUME NEW i \in 1..n, NEW j \in 1..n, i < j PROVE places[i] \in before[places[j]]
  <2>1. /\ places[i] \in S /\ places[j] \in S /\ rank[places[i]] = i - 1
        /\ rank[places[j]] = j - 1
    BY <1>11
  <2>2. rank[places[i]] < rank[places[j]] /\ ~(rank[places[j]] < rank[places[i]])
    BY <1>1, <1>14, <2>1
  <2>3. places[i] # places[j] /\ places[j] \notin before[places[i]]
    BY <1>5, <2>1, <2>2
  <2> QED BY <2>1, <2>3
<1> QED BY <1>1, <1>12, <1>13, <1>14 DEF places

RulesInv ==
  /\ approvals \subseteq Approved /\ IsFiniteSet(approvals) /\ now \in Nat
  /\ \A c \in approvals, d \in approvals : c # d => c.id # d.id

\* No candidate is better than itself.
LEMMA SelfNotBetter ==
  ASSUME NEW c \in Approved
  PROVE  ~Better(c, c)
<1>1. c.quality \in QualityVectors /\ c.completionAt \in Nat /\ c.id \in Nat
  BY DEF Approved
<1>2. SameQuality(c.quality, c.quality)
  BY <1>1, SameQualityAgrees
<1> QED BY <1>1, <1>2 DEF Better

LEMMA RankingPlaces ==
  ASSUME NEW rows \in SUBSET Approved, IsFiniteSet(rows),
         \A c \in rows, d \in rows : c # d => c.id # d.id
  PROVE  LET n == Cardinality(rows)
             ranked == Ranking(rows)
         IN  /\ n \in Nat /\ ranked \in [1..n -> rows]
             /\ \A c \in rows : \E i \in 1..n : ranked[i] = c
             /\ \A i \in 1..n, j \in 1..n : i < j => Better(ranked[i], ranked[j])
<1> DEFINE before == [c \in rows |-> {d \in rows : Better(d, c)}]
<1>1. before \in [rows -> SUBSET rows]
  OBVIOUS
<1>2. \A c \in rows, d \in rows : c \in before[d] <=> Better(c, d)
  OBVIOUS
<1>3. \A c \in rows : ~Better(c, c)
  BY SelfNotBetter
<1> HIDE DEF before
<1>4. \A c \in rows : c \notin before[c]
  BY <1>2, <1>3
<1>5. \A c \in rows, d \in rows : c # d => c \in before[d] \/ d \in before[c]
  BY <1>2, BetterTotal
<1>6. \A b \in rows, c \in rows, d \in rows : b \in before[c] /\ c \in before[d] => b \in before[d]
  BY <1>2, BetterTransitive
<1>7. Ranking(rows) = InOrder(before)
  BY DEF Ranking, before
<1> QED BY <1>1, <1>2, <1>4, <1>5, <1>6, <1>7, InOrderPlaces

LEMMA TailOfPlaces ==
  ASSUME NEW S, NEW n \in Nat \ {0}, NEW f \in [1..n -> S]
  PROVE  /\ Len(f) = n /\ Len(Tail(f)) = n - 1 /\ DOMAIN Tail(f) = 1..(n - 1)
         /\ \A i \in 1..(n - 1) : Tail(f)[i] = f[i + 1]
<1>1. f \in Seq(S) /\ Len(f) = n
  OBVIOUS
<1>2. f # <<>>
  BY <1>1
<1> QED BY <1>1, <1>2, HeadTailProperties, LenProperties

\* What the arbitration prefers is what the design prefers.
LEMMA PrefersAsBetter ==
  ASSUME NEW a \in Approved, NEW b \in Approved, Better(a, b), a.id # b.id
  PROVE  Prefers(a, b)
<1> DEFINE merit(x) == [i \in Ranks |-> IF i = 3 THEN 0 - x.quality[3] ELSE x.quality[i]]
           tail(x) == <<IF x.source = "slskd" THEN 1 ELSE 0, 0 - x.completionAt, 0 - x.id>>
           key(x) == [i \in 1..9 |-> IF i <= 6 THEN merit(x)[i] ELSE tail(x)[i - 6]]
           differ == {i \in 1..9 : key(a)[i] # key(b)[i]}
<1>1. \A x \in {a, b} :
        /\ x.quality \in QualityVectors /\ x.id \in Nat /\ x.completionAt \in Nat
        /\ x.source \in {"slskd", "spotiflac"}
  BY DEF Approved, Sources
<1>2. \A x \in {a, b} :
        /\ \A i \in Ranks : key(x)[i] = Merit(x.quality, i)
        /\ key(x)[7] = (IF x.source = "slskd" THEN 1 ELSE 0)
        /\ key(x)[8] = 0 - x.completionAt /\ key(x)[9] = 0 - x.id
  BY <1>1 DEF Ranks, QualityVectors, Merit
<1>3. \A i \in 1..9 : i \in Ranks \/ i = 7 \/ i = 8 \/ i = 9
  BY DEF Ranks
<1>4. Ranks = 1..6
  BY DEF Ranks
<1> DEFINE l == key(a)
           r == key(b)
<1>5. \A i \in 1..9 : l[i] \in Int /\ r[i] \in Int
  <2>1. ASSUME NEW x \in {a, b} PROVE \A i \in 1..9 : key(x)[i] \in Int
    <3>1. \A i \in Ranks : key(x)[i] \in Int
      BY <1>1, <1>2, MeritType
    <3>2. key(x)[7] \in Int /\ key(x)[8] \in Int /\ key(x)[9] \in Int
      BY <1>1, <1>2
    <3> HIDE DEF key
    <3> QED BY <1>3, <3>1, <3>2
  <2> QED BY <2>1
<1> HIDE DEF l, r
<1>6. \E i \in 1..9 : l[i] > r[i] /\ \A j \in 1..9 : j < i => l[j] = r[j]
  <2>1. CASE ~SameQuality(a.quality, b.quality)
    <3>1. PICK i \in Ranks : /\ Merit(a.quality, i) > Merit(b.quality, i)
                             /\ \A j \in Ranks : j < i => Merit(a.quality, j) = Merit(b.quality, j)
      BY <2>1 DEF Better, BetterQuality
    <3>2. l[i] > r[i] /\ \A j \in Ranks : j < i => l[j] = r[j]
      BY <1>2, <3>1 DEF l, r
    <3>3. i \in 1..6 /\ \A j \in 1..9 : j < i => j \in 1..6
      BY <1>4
    <3> QED BY <1>4, <3>2, <3>3
  <2>2. CASE SameQuality(a.quality, b.quality)
    <3>1. \A i \in Ranks : l[i] = r[i]
      BY <1>1, <1>2, <2>2, SameQualityAgrees DEF l, r
    <3>2. /\ l[7] = (IF a.source = "slskd" THEN 1 ELSE 0) /\ r[7] = (IF b.source = "slskd" THEN 1 ELSE 0)
          /\ l[8] = 0 - a.completionAt /\ r[8] = 0 - b.completionAt
          /\ l[9] = 0 - a.id /\ r[9] = 0 - b.id
      BY <1>2 DEF l, r
    <3>3. \/ l[7] > r[7]
          \/ l[7] = r[7] /\ l[8] > r[8]
          \/ l[7] = r[7] /\ l[8] = r[8] /\ l[9] > r[9]
      BY <1>1, <2>2, <3>2 DEF Better, SourcePriority
    <3>4. \A i \in 1..6 : l[i] = r[i]
      BY <1>4, <3>1
    <3>5. CASE l[7] > r[7]
      BY <3>4, <3>5
    <3>6. CASE l[7] = r[7] /\ l[8] > r[8]
      BY <3>4, <3>6
    <3>7. CASE l[7] = r[7] /\ l[8] = r[8] /\ l[9] > r[9]
      BY <3>4, <3>7
    <3> QED BY <3>3, <3>5, <3>6, <3>7
  <2> QED BY <2>1, <2>2
<1>7. PICK i \in 1..9 : l[i] > r[i] /\ \A j \in 1..9 : j < i => l[j] = r[j]
  BY <1>6
<1>8. differ = {k \in 1..9 : l[k] # r[k]}
  BY DEF l, r
<1> DEFINE least == CHOOSE k \in differ : \A j \in differ : k <= j
<1> HIDE DEF differ
<1>9. i \in differ /\ \A j \in differ : i <= j /\ j \in 1..9
  BY <1>5, <1>7, <1>8
<1>10. least \in differ /\ \A j \in differ : least <= j
  BY <1>9
<1> HIDE DEF least
<1>11. least = i
  <2>1. least \in 1..9 /\ i <= least /\ least <= i
    BY <1>9, <1>10
  <2> QED BY <2>1
<1>12. differ # {} /\ l[least] > r[least]
  BY <1>7, <1>9, <1>11
<1> QED BY <1>12 DEF Prefers, differ, least, l, r

\* The rows that a step leaves.
LEMMA RulesSteps == RulesInv /\ [RulesNext]_rulesVars => RulesInv'
<1> SUFFICES ASSUME RulesInv, [RulesNext]_rulesVars PROVE RulesInv'
  OBVIOUS
<1>1. CASE Advance
  BY <1>1 DEF Advance, RulesInv
<1>2. ASSUME NEW c \in Pool, RecordApproval(c) PROVE RulesInv'
  <2>1. c \in Approved /\ approvals' = approvals \union {c} /\ now' = now
    BY <1>2, PoolAssumption DEF RecordApproval
  <2>2. IsFiniteSet(approvals')
    BY <2>1, FS_AddElement DEF RulesInv
  <2>3. \A d \in approvals : d.id # c.id
    BY <1>2 DEF RecordApproval
  <2> QED BY <2>1, <2>2, <2>3 DEF RulesInv
<1>3. CASE UNCHANGED rulesVars
  BY <1>3 DEF rulesVars, RulesInv
<1> QED BY <1>1, <1>2, <1>3 DEF RulesNext

LEMMA RulesStarts == RulesInit => RulesInv
BY FS_EmptySet DEF RulesInit, RulesInv

\* A set of natural numbers has a least one.
LEMMA LeastNumber ==
  ASSUME NEW numbers, numbers \subseteq Nat, numbers # {}
  PROVE  \E n \in numbers : \A m \in numbers : n <= m
<1> DEFINE less == {ss \in Nat \X Nat : ss[1] < ss[2]}
<1>1. IsWellFoundedOn(less, Nat)
  BY NatLessThanWellFounded, Zenon DEF OpToRel
<1>2. \A n \in Nat, m \in Nat : <<m, n>> \notin less => n <= m
  OBVIOUS
<1> HIDE DEF less
<1>3. PICK n \in numbers : \A m \in numbers : <<m, n>> \notin less
  BY <1>1, WFMin
<1> QED BY <1>2, <1>3

\* The first of the approvals exists.
LEMMA FirstApproval ==
  ASSUME NEW rows \in SUBSET Approved, rows # {}
  PROVE  \E c \in rows : \A d \in rows : c.approvedAt <= d.approvedAt
<1> DEFINE times == {c.approvedAt : c \in rows}
<1>1. \A c \in rows : c.approvedAt \in Nat
  BY DEF Approved
<1>2. times \subseteq Nat /\ times # {}
  BY <1>1
<1> HIDE DEF times
<1>3. \E t \in times : \A u \in times : t <= u
  BY <1>2, LeastNumber
<1> QED BY <1>3 DEF times

\* The deadline is the window after the first approval, whichever it is.
LEMMA DeadlineIs ==
  ASSUME NEW rows \in SUBSET Approved, NEW c \in rows, \A d \in rows : c.approvedAt <= d.approvedAt
  PROVE  Deadline(rows) = c.approvedAt + Window
<1> DEFINE first == CHOOSE x \in rows : \A d \in rows : x.approvedAt <= d.approvedAt
<1>1. first \in rows /\ \A d \in rows : first.approvedAt <= d.approvedAt
  OBVIOUS
<1>2. Deadline(rows) = first.approvedAt + Window
  BY DEF Deadline
<1> HIDE DEF first
<1>3. first.approvedAt \in Nat /\ c.approvedAt \in Nat
  BY <1>1 DEF Approved
<1> QED BY <1>1, <1>2, <1>3

LEMMA DecisionPreferred ==
  ASSUME RulesInv
  PROVE  WinnerPreferred
<1> SUFFICES ASSUME Decided PROVE WinnerPreferred
  BY DEF WinnerPreferred
<1> DEFINE n == Cardinality(InWindow)
           ranked == Ranking(InWindow)
           others == InWindow \ {Decision.winner}
<1>0. /\ InWindow \in SUBSET Approved /\ IsFiniteSet(InWindow)
      /\ \A c \in InWindow, d \in InWindow : c # d => c.id # d.id
  <2>1. InWindow \in SUBSET approvals
    BY DEF InWindow
  <2> QED BY <2>1, FS_Subset DEF RulesInv
<1>1. /\ n \in Nat /\ ranked \in [1..n -> InWindow]
      /\ \A c \in InWindow : \E i \in 1..n : ranked[i] = c
      /\ \A i \in 1..n, j \in 1..n : i < j => Better(ranked[i], ranked[j])
  BY <1>0, RankingPlaces
<1>2. InWindow = {c \in approvals : InTime(c, Deadline(approvals))}
  BY DEF InWindow, InTime
<1>3. ~Waits(InWindow, Deadline(approvals), now)
  BY <1>2 DEF Decided, Decision, DecideArbitration
<1>4. n \in Nat \ {0}
  BY <1>1, <1>3 DEF Waits
<1>5. Decision.winner = ranked[1] /\ Decision.losers = Tail(ranked)
  BY <1>2, <1>3 DEF Decision, DecideArbitration, Losers
<1> DEFINE losers == Tail(ranked)
<1> HIDE DEF ranked
<1>6. /\ Len(losers) = n - 1 /\ DOMAIN losers = 1..(n - 1)
      /\ \A i \in 1..(n - 1) : losers[i] = ranked[i + 1]
  BY <1>1, <1>4, TailOfPlaces
<1>7. \A i \in 1..n, j \in 1..n : i < j => ranked[i] # ranked[j]
  <2>1. ASSUME NEW c \in InWindow PROVE ~Better(c, c)
    BY <1>0, SelfNotBetter
  <2> QED BY <1>1, <2>1
<1> HIDE DEF losers, n
<1>8. ranked[1] \in InWindow /\ 1 \in 1..n
  BY <1>1, <1>4
<1>9. ASSUME NEW c \in others PROVE Prefers(Decision.winner, c)
  <2>1. PICK i \in 1..n : ranked[i] = c
    BY <1>1
  <2>2. 1 < i
    BY <1>5, <2>1
  <2>3. Better(ranked[1], c)
    BY <1>1, <1>8, <2>1, <2>2
  <2>4. ranked[1].id # c.id
    BY <1>0, <1>5, <1>8
  <2> QED BY <1>0, <1>5, <1>8, <2>3, <2>4, PrefersAsBetter
<1>10. {losers[i] : i \in DOMAIN losers} = others
  <2>1. ASSUME NEW i \in DOMAIN losers PROVE losers[i] \in others
    <3>1. i \in 1..(n - 1) /\ losers[i] = ranked[i + 1]
      BY <1>6
    <3>2. i + 1 \in 1..n /\ 1 < i + 1
      BY <1>4, <3>1
    <3> QED BY <1>1, <1>5, <1>7, <1>8, <3>1, <3>2
  <2>2. ASSUME NEW c \in others PROVE \E i \in DOMAIN losers : losers[i] = c
    <3>1. PICK i \in 1..n : ranked[i] = c
      BY <1>1
    <3>2. i - 1 \in 1..(n - 1) /\ (i - 1) + 1 = i
      BY <1>4, <1>5, <3>1
    <3> QED BY <1>6, <3>1, <3>2
  <2> QED BY <2>1, <2>2
<1>11. Len(losers) = Cardinality(others)
  <2>1. Cardinality(others) = n - 1
    BY <1>0, <1>5, <1>8, FS_RemoveElement DEF n
  <2> QED BY <1>6, <2>1
<1>12. Decision.losers = losers /\ Decision.winner \in InWindow
  BY <1>5, <1>8 DEF losers
<1> QED BY <1>9, <1>10, <1>11, <1>12 DEF WinnerPreferred

\* The winner is a candidate of the window that the design prefers to each other
\* one of it, and exactly those others lose, for any approvals in any order.
THEOREM WinnerIsPreferred == RulesSpec => []WinnerPreferred
<1>1. RulesSpec => []RulesInv
  BY RulesStarts, RulesSteps, PTL DEF RulesSpec
<1>2. RulesInv => WinnerPreferred
  BY DecisionPreferred
<1> QED BY <1>1, <1>2, PTL

LEMMA LateIgnored ==
  ASSUME RulesInv, [RulesNext]_rulesVars, Decided,
         \A c \in approvals' \ approvals : c.approvedAt >= Deadline(approvals)
  PROVE  Decision' = Decision
<1> DEFINE deadline == Deadline(approvals)
           eligible == {c \in approvals : InTime(c, deadline)}
           later == {c \in approvals' : InTime(c, Deadline(approvals'))}
<1>0. approvals \in SUBSET Approved /\ approvals # {} /\ now \in Nat
  BY DEF RulesInv, Decided
<1>1. PICK first \in approvals : \A d \in approvals : first.approvedAt <= d.approvedAt
  BY <1>0, FirstApproval
<1>2. deadline = first.approvedAt + Window /\ first.approvedAt \in Nat
  BY <1>0, <1>1, DeadlineIs DEF Approved
<1> HIDE DEF deadline
<1>3. approvals \subseteq approvals' /\ approvals' \subseteq Approved
  BY PoolAssumption DEF RulesInv, RulesNext, Advance, RecordApproval, rulesVars
<1>4. now' \in Nat /\ now' >= now
  BY DEF RulesInv, RulesNext, Advance, RecordApproval, rulesVars
<1>5. \A c \in approvals' \ approvals : c.approvedAt >= deadline /\ c.approvedAt \in Nat
  BY <1>3 DEF deadline, Approved
<1>6. Deadline(approvals') = deadline
  <2>1. \A d \in approvals' : first.approvedAt <= d.approvedAt
    BY <1>1, <1>2, <1>5, RulesAssumption
  <2> QED BY <1>2, <1>3, <2>1, DeadlineIs
<1>7. later = eligible
  BY <1>2, <1>3, <1>5, <1>6, RulesAssumption DEF InTime
<1>8. ~Waits(eligible, deadline, now)
  BY DEF Decided, Decision, DecideArbitration, deadline
<1> HIDE DEF eligible, later
<1>9. ~Waits(eligible, deadline, now')
  BY <1>0, <1>2, <1>4, <1>8, RulesAssumption DEF Waits
<1>10. Decision = [decided |-> TRUE, winner |-> Ranking(eligible)[1], losers |-> Losers(Ranking(eligible)),
                   reason |-> IF Len(Listing(eligible)) = 1 THEN "ARBITRATION_DEADLINE_EXPIRED"
                              ELSE Reason(Listing(eligible)[1], Listing(eligible)[2])]
  BY <1>8 DEF Decision, DecideArbitration, eligible, deadline
<1>11. Decision' = [decided |-> TRUE, winner |-> Ranking(eligible)[1], losers |-> Losers(Ranking(eligible)),
                    reason |-> IF Len(Listing(eligible)) = 1 THEN "ARBITRATION_DEADLINE_EXPIRED"
                               ELSE Reason(Listing(eligible)[1], Listing(eligible)[2])]
  <2>1. Decision' = DecideArbitration(approvals', deadline, now')
    BY <1>6 DEF Decision
  <2>2. eligible = {c \in approvals' : InTime(c, deadline)}
    BY <1>6, <1>7 DEF later
  <2> QED BY <1>9, <2>1, <2>2 DEF DecideArbitration
<1> QED BY <1>10, <1>11

\* An approval given at or after the deadline leaves a decision as it is.
THEOREM LateApprovalsLeaveDecisions == RulesSpec => LateApprovalIgnored
<1>1. RulesSpec => []RulesInv
  BY RulesStarts, RulesSteps, PTL DEF RulesSpec
<1>2. RulesInv /\ [RulesNext]_rulesVars =>
        [Decided /\ (\A c \in approvals' \ approvals : c.approvedAt >= Deadline(approvals))
           => Decision' = Decision]_rulesVars
  BY LateIgnored
<1> QED BY <1>1, <1>2, PTL DEF RulesSpec, LateApprovalIgnored

-----------------------------------------------------------------------------
(* Lidarr's catalogue (Catalog) *)

EnsureSteps ==
  {"rest", "defaults", "lookup", "existing", "add", "find", "refresh", "refreshing",
   "again", "monitor", "verify", "done"}
\* Where a caller holds a profile it may add an artist with.
Choosing == {"lookup", "existing", "add"}
\* Where a caller has seen the artist in the catalogue.
FoundSteps == {"find", "refresh", "refreshing", "again", "monitor", "verify", "done"}

Ensures ==
  [pc : EnsureSteps, release : Releases \union {"none"}, profile : Nat, monitored : BOOLEAN,
   polls : Nat, disturbed : BOOLEAN]
CatalogType ==
  /\ defaults \in [preferred : Profiles \union {0}, available : SUBSET Profiles]
  /\ artist \in [there : BOOLEAN, profile : Nat, watched : {FALSE}]
  /\ known \subseteq Releases /\ monitored \in [Albums -> BOOLEAN]
  /\ ensure \in [Callers -> Ensures]
  /\ asked \subseteq Releases /\ wished \subseteq Albums /\ mishaps \in Nat

\* Whoever ensures a release asked for it, adds the artist with a profile that
\* there is, and sees the artist before the release.
Follows(call) ==
  /\ call.pc # "rest" => call.release \in asked
  /\ call.pc \in Choosing => call.profile \in defaults.available
  /\ call.pc \in FoundSteps => artist.there
  /\ call.pc = "done" /\ ~call.disturbed =>
       call.release \in known /\ monitored[AlbumOf[call.release]]
CallersFollow == \A c \in Callers : Follows(ensure[c])
ProfileExists == artist.there => artist.profile \in defaults.available
OnlyAsked == \A a \in Albums : monitored[a] => a \in wished \/ \E r \in asked : AlbumOf[r] = a
CatalogInv == CatalogType /\ CallersFollow /\ ProfileExists /\ OnlyAsked

-----------------------------------------------------------------------------
(* What a step leaves of a caller *)

LEMMA NoProfile == 0 \notin Profiles /\ Profiles \subseteq Nat
BY CatalogAssumption

LEMMA MishapCounts == CatalogType /\ Mishap => mishaps' \in Nat
<1>1. mishaps \in Nat => mishaps + 1 \in Nat
  OBVIOUS
<1> QED BY <1>1 DEF CatalogType, Mishap

LEMMA AtRestFollows == AtRest \in Ensures /\ Follows(AtRest) /\ AtRest.pc = "rest"
BY DEF AtRest, Ensures, EnsureSteps, Follows, Choosing, FoundSteps

\* A new place of one caller, and what it has from there.
LEMMA CallerTurns ==
  ASSUME CatalogType, NEW c \in Callers, NEW call \in Ensures,
         ensure' = [ensure EXCEPT ![c] = call]
  PROVE  /\ ensure' \in [Callers -> Ensures] /\ ensure'[c] = call
         /\ \A d \in Callers \ {c} : ensure'[d] = ensure[d]
BY DEF CatalogType

LEMMA StepsAsRecords ==
  ASSUME CatalogType, NEW c \in Callers, NEW to \in EnsureSteps
  PROVE  /\ ensure[c] \in Ensures /\ [ensure[c] EXCEPT !.pc = to] \in Ensures
         /\ Reaches(c, to) => ensure' = [ensure EXCEPT ![c] = [ensure[c] EXCEPT !.pc = to]]
         /\ Gives(c) => ensure' = [ensure EXCEPT ![c] = AtRest]
<1>1. ensure[c] \in Ensures /\ ensure \in [Callers -> Ensures]
  BY DEF CatalogType
<1>2. [ensure[c] EXCEPT !.pc = to] \in Ensures
  BY <1>1 DEF Ensures
<1> QED BY <1>1, <1>2 DEF Reaches, Gives

\* A step of one caller that changes nothing else.
LEMMA OnlyCallerKeeps ==
  ASSUME CatalogInv, OnlyCaller, NEW c \in Callers, NEW call \in Ensures, Follows(call),
         ensure' = [ensure EXCEPT ![c] = call]
  PROVE  CatalogInv'
<1>0. CatalogType
  BY DEF CatalogInv
<1>1. /\ ensure' \in [Callers -> Ensures] /\ ensure'[c] = call
      /\ \A d \in Callers \ {c} : ensure'[d] = ensure[d]
  BY <1>0, CallerTurns
<1>2. UNCHANGED <<defaults, artist, known, monitored, asked, wished, mishaps>>
  BY DEF OnlyCaller, lidarrCatalogVars
<1>3. CatalogType'
  BY <1>0, <1>1, <1>2 DEF CatalogType
<1>4. ASSUME NEW d \in Callers PROVE Follows(ensure[d])'
  <2>1. CASE d = c
    BY <1>1, <1>2, <2>1 DEF Follows
  <2>2. CASE d # c
    <3>1. Follows(ensure[d]) /\ ensure'[d] = ensure[d]
      BY <1>1, <2>2 DEF CatalogInv, CallersFollow
    <3> QED BY <1>2, <3>1 DEF Follows
  <2> QED BY <2>1, <2>2
<1>5. ProfileExists' /\ OnlyAsked'
  BY <1>2 DEF CatalogInv, ProfileExists, OnlyAsked
<1> QED BY <1>3, <1>4, <1>5 DEF CatalogInv, CallersFollow

\* A caller that a step leaves where it is, when the artist stays and a release
\* that counts as ensured stays in the catalogue and monitored.
LEMMA CallerKeeps ==
  ASSUME NEW call, Follows(call), defaults' = defaults, artist.there => artist'.there,
         asked \subseteq asked',
         call.pc = "done" /\ ~call.disturbed =>
           (call.release \in known => call.release \in known')
           /\ (monitored[AlbumOf[call.release]] => monitored'[AlbumOf[call.release]])
  PROVE  Follows(call)'
BY DEF Follows

LEMMA UsableExists ==
  ASSUME CatalogType, UsableProfile # 0
  PROVE  UsableProfile \in defaults.available /\ UsableProfile \in Nat
<1>1. defaults.available \subseteq Nat
  BY NoProfile DEF CatalogType
<1>2. CASE defaults.preferred \in defaults.available
  BY <1>1, <1>2 DEF UsableProfile
<1>3. CASE defaults.preferred \notin defaults.available
  <2>1. Cardinality(defaults.available) = 1 /\ UsableProfile = CHOOSE p \in defaults.available : TRUE
    BY <1>3 DEF UsableProfile
  <2>2. defaults.available # {}
    BY <2>1, FS_EmptySet
  <2> QED BY <1>1, <2>1, <2>2
<1> QED BY <1>2, <1>3
-----------------------------------------------------------------------------
(* The steps of EnsureRelease *)

LEMMA CatalogStarts == CatalogInit => CatalogInv
<1> SUFFICES ASSUME CatalogInit PROVE CatalogInv
  OBVIOUS
<1>1. /\ known = {} /\ asked = {} /\ wished = {} /\ mishaps = 0
      /\ ensure = [c \in Callers |-> AtRest] /\ monitored = [a \in Albums |-> FALSE]
  BY DEF CatalogInit, CatalogFresh
<1>2. /\ defaults \in [preferred : Profiles \union {0}, available : SUBSET Profiles]
      /\ artist \in [there : BOOLEAN, profile : Nat, watched : {FALSE}] /\ ProfileExists
  <2>1. PICK preferred \in Profiles \union {0}, available \in SUBSET Profiles :
          /\ defaults = [preferred |-> preferred, available |-> available]
          /\ artist \in {NoArtist} \union
               {[there |-> TRUE, profile |-> p, watched |-> FALSE] : p \in available}
    BY DEF CatalogInit
  <2>2. CASE artist = NoArtist
    BY <2>1, <2>2 DEF ProfileExists, NoArtist
  <2>3. CASE artist \in {[there |-> TRUE, profile |-> p, watched |-> FALSE] : p \in available}
    <3>1. PICK p \in available : artist = [there |-> TRUE, profile |-> p, watched |-> FALSE]
      BY <2>3
    <3>2. p \in Nat
      BY NoProfile
    <3> QED BY <2>1, <3>1, <3>2 DEF ProfileExists
  <2> QED BY <2>1, <2>2, <2>3
<1>3. CatalogType
  BY <1>1, <1>2, AtRestFollows DEF CatalogType
<1>4. CallersFollow /\ OnlyAsked
  BY <1>1, AtRestFollows DEF CallersFollow, OnlyAsked
<1> QED BY <1>2, <1>3, <1>4 DEF CatalogInv

LEMMA EnsureReleaseKeeps ==
  ASSUME CatalogInv, NEW c \in Callers, NEW r \in Releases, EnsureRelease(c, r)
  PROVE  CatalogInv'
<1> DEFINE call == [AtRest EXCEPT !.pc = "defaults", !.release = r]
<1>0. CatalogType
  BY DEF CatalogInv
<1>1. /\ call \in Ensures /\ call.pc = "defaults" /\ call.release = r
  BY DEF AtRest, Ensures, EnsureSteps
<1>2. /\ ensure' = [ensure EXCEPT ![c] = call] /\ asked' = asked \union {r}
      /\ UNCHANGED <<defaults, artist, known, monitored, wished, mishaps>>
  BY DEF EnsureRelease, lidarrCatalogVars
<1> HIDE DEF call
<1>3. /\ ensure' \in [Callers -> Ensures] /\ ensure'[c] = call
      /\ \A d \in Callers \ {c} : ensure'[d] = ensure[d]
  BY <1>0, <1>1, <1>2, CallerTurns
<1>4. CatalogType'
  BY <1>0, <1>2, <1>3 DEF CatalogType
<1>5. Follows(call)'
  BY <1>1, <1>2 DEF Follows, Choosing, FoundSteps
<1>6. CallersFollow'
  BY <1>2, <1>3, <1>5, CallerKeeps DEF CatalogInv, CallersFollow
<1>7. ProfileExists' /\ OnlyAsked'
  BY <1>2 DEF CatalogInv, ProfileExists, OnlyAsked
<1> QED BY <1>4, <1>6, <1>7 DEF CatalogInv

\* The caller goes on to a step that asks no more of it than it has.
LEMMA ReachesKeeps ==
  ASSUME CatalogInv, OnlyCaller, NEW c \in Callers, NEW to \in EnsureSteps, Reaches(c, to),
         ensure[c].pc # "rest", to \notin {"rest", "done"},
         to \in Choosing => ensure[c].pc \in Choosing, to \in FoundSteps => artist.there
  PROVE  CatalogInv'
<1> DEFINE call == [ensure[c] EXCEPT !.pc = to]
<1>0. CatalogType /\ Follows(ensure[c])
  BY DEF CatalogInv, CallersFollow
<1>1. call \in Ensures /\ ensure' = [ensure EXCEPT ![c] = call]
  BY <1>0, StepsAsRecords
<1>2. call.pc = to /\ call.release = ensure[c].release /\ call.profile = ensure[c].profile
  BY <1>0, StepsAsRecords DEF Ensures
<1> HIDE DEF call
<1>3. Follows(call)
  BY <1>0, <1>2 DEF Follows
<1> QED BY <1>1, <1>3, OnlyCallerKeeps

LEMMA GivesKeeps ==
  ASSUME CatalogInv, OnlyCaller, NEW c \in Callers, Gives(c)
  PROVE  CatalogInv'
BY AtRestFollows, OnlyCallerKeeps DEF Gives

LEMMA CatalogDefaultsKeeps ==
  ASSUME CatalogInv, NEW c \in Callers, CatalogDefaults(c)
  PROVE  CatalogInv'
<1>0. CatalogType /\ Follows(ensure[c]) /\ ensure[c] \in Ensures /\ OnlyCaller
      /\ ensure[c].pc = "defaults"
  BY DEF CatalogInv, CallersFollow, CatalogType, CatalogDefaults, Asks
<1>1. CASE /\ UsableProfile # 0
           /\ ensure' = [ensure EXCEPT ![c].pc = "lookup", ![c].profile = UsableProfile]
  <2> DEFINE call == [ensure[c] EXCEPT !.pc = "lookup", !.profile = UsableProfile]
  <2>1. UsableProfile \in defaults.available /\ UsableProfile \in Nat
    BY <1>0, <1>1, UsableExists
  <2>2. call \in Ensures /\ call.pc = "lookup" /\ call.release = ensure[c].release
        /\ call.profile = UsableProfile
    BY <1>0, <2>1 DEF Ensures, EnsureSteps
  <2>3. ensure' = [ensure EXCEPT ![c] = call]
    BY <1>0, <1>1 DEF CatalogType
  <2> HIDE DEF call
  <2>4. Follows(call)
    BY <1>0, <2>1, <2>2 DEF Follows, FoundSteps
  <2> QED BY <1>0, <2>2, <2>3, <2>4, OnlyCallerKeeps
<1>2. CASE Gives(c)
  BY <1>0, <1>2, GivesKeeps
<1> QED BY <1>1, <1>2 DEF CatalogDefaults

LEMMA LookupArtistKeeps ==
  ASSUME CatalogInv, NEW c \in Callers, LookupArtist(c)
  PROVE  CatalogInv'
<1> DEFINE profile == IF artist.there THEN artist.profile ELSE ensure[c].profile
           call == [ensure[c] EXCEPT !.pc = "existing", !.profile = profile]
<1>0. CatalogType /\ Follows(ensure[c]) /\ ensure[c] \in Ensures /\ OnlyCaller
      /\ ensure[c].pc = "lookup" /\ ProfileExists
  BY DEF CatalogInv, CallersFollow, CatalogType, LookupArtist, Asks
<1>1. profile \in defaults.available /\ profile \in Nat
  BY <1>0 DEF Follows, Choosing, ProfileExists, Ensures, CatalogType
<1> HIDE DEF profile
<1>2. call \in Ensures /\ call.pc = "existing" /\ call.release = ensure[c].release
      /\ call.profile = profile
  BY <1>0, <1>1 DEF Ensures, EnsureSteps
<1>3. ensure' = [ensure EXCEPT ![c] = call]
  <2>1. ensure' = [ensure EXCEPT ![c].pc = "existing", ![c].profile = profile]
    BY <1>0 DEF LookupArtist, profile, CatalogType, Ensures
  <2> QED BY <1>0, <2>1 DEF CatalogType
<1> HIDE DEF call
<1>4. Follows(call)
  BY <1>0, <1>1, <1>2 DEF Follows, FoundSteps
<1> QED BY <1>0, <1>2, <1>3, <1>4, OnlyCallerKeeps

LEMMA ExistingArtistKeeps ==
  ASSUME CatalogInv, NEW c \in Callers, ExistingArtist(c)
  PROVE  CatalogInv'
<1>1. OnlyCaller /\ ensure[c].pc = "existing" /\ artist.there \in BOOLEAN
  BY DEF ExistingArtist, Asks, CatalogInv, CatalogType
<1>2. CASE artist.there
  <2>1. Reaches(c, "find")
    BY <1>2 DEF ExistingArtist
  <2> QED BY <1>1, <1>2, <2>1, ReachesKeeps DEF EnsureSteps, Choosing, FoundSteps
<1>3. CASE ~artist.there
  <2>1. Reaches(c, "add")
    BY <1>3 DEF ExistingArtist
  <2> QED BY <1>1, <2>1, ReachesKeeps DEF EnsureSteps, Choosing, FoundSteps
<1> QED BY <1>2, <1>3

\* The artist is added with a profile that there is, and nothing of it is watched.
LEMMA AddArtistKeeps ==
  ASSUME CatalogInv, NEW c \in Callers, AddArtist(c)
  PROVE  CatalogInv'
<1>0. CatalogType /\ Follows(ensure[c]) /\ ensure[c] \in Ensures /\ ensure[c].pc = "add"
      /\ UNCHANGED <<defaults, known, monitored, asked, wished>>
  BY DEF CatalogInv, CallersFollow, CatalogType, AddArtist, Asks
<1>1. CASE artist.there /\ Gives(c) /\ UNCHANGED <<artist, mishaps>>
  BY <1>0, <1>1, GivesKeeps DEF OnlyCaller, lidarrCatalogVars
<1>2. CASE ~artist.there /\ artist' = Added(ensure[c].profile) /\ EndsOrLost(c, "find")
  <2>1. /\ artist' \in [there : BOOLEAN, profile : Nat, watched : {FALSE}]
        /\ artist'.there /\ artist'.profile = ensure[c].profile
    BY <1>0, <1>2 DEF Added, Ensures
  <2>2. artist'.profile \in defaults.available
    BY <1>0, <2>1 DEF Follows, Choosing
  <2>3. PICK call \in Ensures : /\ ensure' = [ensure EXCEPT ![c] = call]
                                /\ call.pc \in {"find", "rest"}
                                /\ call.pc # "rest" => call.release = ensure[c].release
    <3>1. CASE Reaches(c, "find")
      <4> DEFINE call == [ensure[c] EXCEPT !.pc = "find"]
      <4>1. "find" \in EnsureSteps
        BY DEF EnsureSteps
      <4>2. call \in Ensures /\ ensure' = [ensure EXCEPT ![c] = call]
        BY <1>0, <3>1, <4>1, StepsAsRecords
      <4>3. call.pc = "find" /\ call.release = ensure[c].release
        BY <1>0 DEF Ensures
      <4> QED BY <4>2, <4>3
    <3>2. CASE Gives(c)
      BY <3>2, AtRestFollows DEF Gives
    <3> QED BY <1>2, <3>1, <3>2 DEF EndsOrLost
  <2>4. /\ ensure' \in [Callers -> Ensures] /\ ensure'[c] = call
        /\ \A d \in Callers \ {c} : ensure'[d] = ensure[d]
    BY <1>0, <2>3, CallerTurns
  <2>5. mishaps' \in Nat
    BY <1>0, <1>2 DEF CatalogType, EndsOrLost, Mishap
  <2>6. CatalogType'
    BY <1>0, <2>1, <2>4, <2>5 DEF CatalogType
  <2>7. Follows(call)'
    BY <1>0, <2>1, <2>3 DEF Follows, Choosing, FoundSteps
  <2>8. CallersFollow'
    BY <1>0, <2>1, <2>4, <2>7, CallerKeeps DEF CatalogInv, CallersFollow
  <2>9. ProfileExists' /\ OnlyAsked'
    BY <1>0, <2>2 DEF CatalogInv, ProfileExists, OnlyAsked
  <2> QED BY <2>6, <2>8, <2>9 DEF CatalogInv
<1> QED BY <1>1, <1>2 DEF AddArtist

LEMMA FindReleaseKeeps ==
  ASSUME CatalogInv, NEW c \in Callers, FindRelease(c)
  PROVE  CatalogInv'
<1> DEFINE r == ensure[c].release
<1>0. /\ CatalogType /\ Follows(ensure[c]) /\ ensure[c] \in Ensures /\ OnlyCaller
      /\ ensure[c].pc \in {"find", "again"}
  BY DEF CatalogInv, CallersFollow, CatalogType, FindRelease
<1>1. ASSUME NEW call \in Ensures, ensure' = [ensure EXCEPT ![c] = call],
             call.pc \in {"monitor", "again"}, call.release = r
      PROVE  CatalogInv'
  <2>1. Follows(call)
    BY <1>0, <1>1 DEF Follows, Choosing, FoundSteps
  <2> QED BY <1>0, <1>1, <2>1, OnlyCallerKeeps
<1>2. CASE ensure' = [ensure EXCEPT ![c].pc = "monitor", ![c].monitored = monitored[AlbumOf[r]]]
           /\ r \in known
  <2> DEFINE call == [ensure[c] EXCEPT !.pc = "monitor", !.monitored = monitored[AlbumOf[r]]]
  <2>1. monitored[AlbumOf[r]] \in BOOLEAN
    BY <1>0, <1>2 DEF CatalogType, Albums
  <2>2. call \in Ensures /\ call.pc = "monitor" /\ call.release = r
    BY <1>0, <2>1 DEF Ensures, EnsureSteps
  <2>3. ensure' = [ensure EXCEPT ![c] = call]
    BY <1>0, <1>2 DEF CatalogType
  <2> HIDE DEF call
  <2> QED BY <1>1, <2>2, <2>3
<1>3. CASE Reaches(c, "refresh")
  BY <1>0, <1>3, ReachesKeeps DEF EnsureSteps, Choosing, FoundSteps, Follows
<1>4. CASE Asks(c, "again") /\ ensure' = [ensure EXCEPT ![c].polls = @ + 1]
  <2> DEFINE call == [ensure[c] EXCEPT !.polls = @ + 1]
  <2>1. call \in Ensures /\ call.pc = "again" /\ call.release = r
    BY <1>0, <1>4 DEF Ensures, Asks
  <2>2. ensure' = [ensure EXCEPT ![c] = call]
    BY <1>0, <1>4 DEF CatalogType
  <2> HIDE DEF call
  <2> QED BY <1>1, <2>1, <2>2
<1>5. CASE Gives(c)
  BY <1>0, <1>5, GivesKeeps
<1> QED BY <1>2, <1>3, <1>4, <1>5 DEF FindRelease

LEMMA RefreshKeeps ==
  ASSUME CatalogInv, NEW c \in Callers, RefreshArtist(c) \/ PollRefresh(c)
  PROVE  CatalogInv'
<1>0. Follows(ensure[c]) /\ OnlyCaller /\ ensure[c].pc \in {"refresh", "refreshing"}
  BY DEF CatalogInv, CallersFollow, RefreshArtist, PollRefresh, Asks
<1>1. CASE Reaches(c, "refreshing")
  BY <1>0, <1>1, ReachesKeeps DEF EnsureSteps, Choosing, FoundSteps, Follows
<1>2. CASE Reaches(c, "again")
  BY <1>0, <1>2, ReachesKeeps DEF EnsureSteps, Choosing, FoundSteps, Follows
<1>3. CASE Gives(c)
  BY <1>0, <1>3, GivesKeeps
<1> QED BY <1>1, <1>2, <1>3 DEF RefreshArtist, PollRefresh

\* The album that is written is that of a release that was asked for.
LEMMA MonitorAlbumKeeps ==
  ASSUME CatalogInv, NEW c \in Callers, MonitorAlbum(c)
  PROVE  CatalogInv'
<1> DEFINE album == AlbumOf[ensure[c].release]
<1>0. /\ CatalogType /\ Follows(ensure[c]) /\ ensure[c] \in Ensures /\ ensure[c].pc = "monitor"
      /\ UNCHANGED <<defaults, artist, known, asked, wished>>
  BY DEF CatalogInv, CallersFollow, CatalogType, MonitorAlbum, Asks
<1>1. CASE Reaches(c, "verify") /\ UNCHANGED <<monitored, mishaps>>
  <2>1. OnlyCaller
    BY <1>0, <1>1 DEF OnlyCaller, lidarrCatalogVars
  <2> QED BY <1>0, <1>1, <2>1, ReachesKeeps DEF EnsureSteps, Choosing, FoundSteps, Follows
<1>2. CASE monitored' = [monitored EXCEPT ![album] = TRUE] /\ EndsOrLost(c, "verify")
  <2>1. PICK call \in Ensures : /\ ensure' = [ensure EXCEPT ![c] = call]
                                /\ call.pc \in {"verify", "rest"}
                                /\ call.pc # "rest" => call.release = ensure[c].release
    <3>1. CASE Reaches(c, "verify")
      <4> DEFINE call == [ensure[c] EXCEPT !.pc = "verify"]
      <4>1. "verify" \in EnsureSteps
        BY DEF EnsureSteps
      <4>2. call \in Ensures /\ ensure' = [ensure EXCEPT ![c] = call]
        BY <1>0, <3>1, <4>1, StepsAsRecords
      <4>3. call.pc = "verify" /\ call.release = ensure[c].release
        BY <1>0 DEF Ensures
      <4> QED BY <4>2, <4>3
    <3>2. CASE Gives(c)
      BY <3>2, AtRestFollows DEF Gives
    <3> QED BY <1>2, <3>1, <3>2 DEF EndsOrLost
  <2>2. /\ ensure' \in [Callers -> Ensures] /\ ensure'[c] = call
        /\ \A d \in Callers \ {c} : ensure'[d] = ensure[d]
    BY <1>0, <2>1, CallerTurns
  <2>3. ensure[c].release \in asked /\ album \in Albums
    BY <1>0 DEF Follows, CatalogType, Albums
  <2>4. /\ monitored' \in [Albums -> BOOLEAN] /\ monitored'[album] = TRUE
        /\ \A a \in Albums : monitored[a] => monitored'[a]
        /\ \A a \in Albums \ {album} : monitored'[a] = monitored[a]
    BY <1>0, <1>2, <2>3 DEF CatalogType
  <2>5. mishaps' \in Nat
    BY <1>0, <1>2 DEF CatalogType, EndsOrLost, Mishap
  <2>6. CatalogType'
    BY <1>0, <2>2, <2>4, <2>5 DEF CatalogType
  <2>7. Follows(call)'
    BY <1>0, <2>1 DEF Follows, Choosing, FoundSteps
  <2>8. CallersFollow'
    <3>1. ASSUME NEW d \in Callers \ {c} PROVE Follows(ensure[d])'
      <4>1. Follows(ensure[d]) /\ ensure'[d] = ensure[d]
        BY <2>2 DEF CatalogInv, CallersFollow
      <4>2. ensure[d].pc # "rest" => AlbumOf[ensure[d].release] \in Albums
        BY <1>0, <4>1 DEF Follows, CatalogType, Albums
      <4> QED BY <1>0, <2>4, <4>1, <4>2 DEF Follows
    <3> QED BY <2>2, <2>7, <3>1 DEF CallersFollow
  <2>9. ProfileExists' /\ OnlyAsked'
    BY <1>0, <2>3, <2>4 DEF CatalogInv, ProfileExists, OnlyAsked
  <2> QED BY <2>6, <2>8, <2>9 DEF CatalogInv
<1> QED BY <1>1, <1>2 DEF MonitorAlbum

LEMMA VerifyAlbumKeeps ==
  ASSUME CatalogInv, NEW c \in Callers, VerifyAlbum(c)
  PROVE  CatalogInv'
<1>0. /\ CatalogType /\ Follows(ensure[c]) /\ ensure[c] \in Ensures /\ OnlyCaller
      /\ ensure[c].pc = "verify"
  BY DEF CatalogInv, CallersFollow, CatalogType, VerifyAlbum, Asks
<1>1. CASE /\ Shown(c)
           /\ ensure' = [ensure EXCEPT ![c].pc = "done", ![c].disturbed = FALSE]
  <2> DEFINE call == [ensure[c] EXCEPT !.pc = "done", !.disturbed = FALSE]
  <2>1. call \in Ensures /\ call.pc = "done" /\ call.release = ensure[c].release
    BY <1>0 DEF Ensures, EnsureSteps
  <2>2. ensure' = [ensure EXCEPT ![c] = call]
    BY <1>0, <1>1 DEF CatalogType
  <2> HIDE DEF call
  <2>3. Follows(call)
    BY <1>0, <1>1, <2>1 DEF Follows, Choosing, FoundSteps, Shown, ShownMonitored
  <2> QED BY <1>0, <2>1, <2>2, <2>3, OnlyCallerKeeps
<1>2. CASE Gives(c)
  BY <1>0, <1>2, GivesKeeps
<1> QED BY <1>1, <1>2 DEF VerifyAlbum

LEMMA CallFailsKeeps ==
  ASSUME CatalogInv, NEW c \in Callers, CallFails(c)
  PROVE  CatalogInv'
<1>0. CatalogType /\ ensure' = [ensure EXCEPT ![c] = AtRest] /\ mishaps' \in Nat
      /\ UNCHANGED <<defaults, artist, known, monitored, asked, wished>>
  BY MishapCounts DEF CatalogInv, CallFails, Gives, lidarrCatalogVars
<1>1. /\ ensure' \in [Callers -> Ensures] /\ ensure'[c] = AtRest
      /\ \A d \in Callers \ {c} : ensure'[d] = ensure[d]
  BY <1>0, CallerTurns, AtRestFollows
<1>2. CatalogType'
  BY <1>0, <1>1 DEF CatalogType
<1>3. CallersFollow'
  <2>1. Follows(AtRest)'
    BY AtRestFollows DEF Follows, Choosing, FoundSteps
  <2> QED BY <1>0, <1>1, <2>1, CallerKeeps DEF CatalogInv, CallersFollow
<1>4. ProfileExists' /\ OnlyAsked'
  BY <1>0 DEF CatalogInv, ProfileExists, OnlyAsked
<1> QED BY <1>2, <1>3, <1>4 DEF CatalogInv

-----------------------------------------------------------------------------
(* The steps of Lidarr and of the operator *)

\* A refresh monitors nothing, since the artist's new items are not watched.
LEMMA LidarrRefreshesKeeps ==
  ASSUME CatalogInv, LidarrRefreshes
  PROVE  CatalogInv'
<1>0. CatalogType /\ UNCHANGED <<defaults, artist, ensure, asked, wished, mishaps>>
  BY DEF CatalogInv, LidarrRefreshes
<1>1. PICK r \in Releases \ known :
        /\ known' = known \union {r}
        /\ monitored' = [monitored EXCEPT ![AlbumOf[r]] = @ \/ artist.watched]
  BY DEF LidarrRefreshes
<1>2. artist.watched = FALSE /\ AlbumOf[r] \in Albums /\ monitored \in [Albums -> BOOLEAN]
  BY <1>0 DEF CatalogType, Albums
<1>3. monitored' = monitored
  <2>1. monitored' = [monitored EXCEPT ![AlbumOf[r]] = monitored[AlbumOf[r]]]
    <3>1. (monitored[AlbumOf[r]] \/ artist.watched) = monitored[AlbumOf[r]]
      BY <1>2
    <3> QED BY <1>1, <3>1
  <2> QED BY <1>2, <2>1
<1>4. CatalogType'
  BY <1>0, <1>1, <1>3 DEF CatalogType
<1>5. CallersFollow'
  BY <1>0, <1>1, <1>3, CallerKeeps DEF CatalogInv, CallersFollow
<1>6. ProfileExists' /\ OnlyAsked'
  BY <1>0, <1>3 DEF CatalogInv, ProfileExists, OnlyAsked
<1> QED BY <1>4, <1>5, <1>6 DEF CatalogInv

\* Callers of a release that someone else has changed are marked.
LEMMA DisturbedCallers ==
  ASSUME CatalogType, NEW hit \in [Callers -> BOOLEAN], ensure' = Disturbed(ensure, hit)
  PROVE  /\ ensure' \in [Callers -> Ensures]
         /\ \A c \in Callers :
              /\ ensure'[c].pc = ensure[c].pc /\ ensure'[c].release = ensure[c].release
              /\ ensure'[c].profile = ensure[c].profile
              /\ hit[c] => ensure'[c].disturbed
              /\ ensure[c].disturbed => ensure'[c].disturbed
<1>1. ASSUME NEW c \in Callers
      PROVE  /\ ensure'[c] \in Ensures
             /\ ensure'[c].pc = ensure[c].pc /\ ensure'[c].release = ensure[c].release
             /\ ensure'[c].profile = ensure[c].profile
             /\ hit[c] => ensure'[c].disturbed
             /\ ensure[c].disturbed => ensure'[c].disturbed
  <2>0. ensure[c] \in Ensures
    BY DEF CatalogType
  <2>1. CASE hit[c]
    <3>1. ensure'[c] = [ensure[c] EXCEPT !.disturbed = TRUE]
      BY <2>1 DEF Disturbed
    <3> QED BY <2>0, <3>1 DEF Ensures
  <2>2. CASE ~hit[c]
    <3>1. ensure'[c] = ensure[c]
      BY <2>2 DEF Disturbed
    <3> QED BY <2>0, <2>2, <3>1
  <2> QED BY <2>1, <2>2
<1>2. ensure' = [c \in Callers |-> ensure'[c]]
  BY DEF Disturbed
<1> QED BY <1>1, <1>2

LEMMA WithdrawKeeps ==
  ASSUME CatalogInv, NEW r \in Releases, Withdraw(r)
  PROVE  CatalogInv'
<1> DEFINE hit == [c \in Callers |-> ensure[c].release = r]
<1>0. /\ CatalogType /\ known' = known \ {r} /\ mishaps' \in Nat
      /\ ensure' = Disturbed(ensure, hit) /\ hit \in [Callers -> BOOLEAN]
      /\ UNCHANGED <<defaults, artist, monitored, asked, wished>>
  BY MishapCounts DEF CatalogInv, Withdraw
<1>h. \A c \in Callers : hit[c] <=> ensure[c].release = r
  OBVIOUS
<1> HIDE DEF hit
<1>1. /\ ensure' \in [Callers -> Ensures]
      /\ \A c \in Callers :
           /\ ensure'[c].pc = ensure[c].pc /\ ensure'[c].release = ensure[c].release
           /\ ensure'[c].profile = ensure[c].profile
           /\ hit[c] => ensure'[c].disturbed
           /\ ensure[c].disturbed => ensure'[c].disturbed
  BY <1>0, DisturbedCallers
<1>2. CatalogType'
  BY <1>0, <1>1 DEF CatalogType
<1>3. ASSUME NEW c \in Callers PROVE Follows(ensure[c])'
  <2>1. Follows(ensure[c])
    BY DEF CatalogInv, CallersFollow
  <2> QED BY <1>0, <1>h, <1>1, <2>1 DEF Follows
<1>4. ProfileExists' /\ OnlyAsked'
  BY <1>0 DEF CatalogInv, ProfileExists, OnlyAsked
<1> QED BY <1>2, <1>3, <1>4 DEF CatalogInv, CallersFollow

LEMMA EditAlbumKeeps ==
  ASSUME CatalogInv, NEW a \in Albums, EditAlbum(a)
  PROVE  CatalogInv'
<1> DEFINE hit == [c \in Callers |-> ensure[c].release \in Releases /\ AlbumOf[ensure[c].release] = a]
<1>0. /\ CatalogType /\ mishaps' \in Nat
      /\ ensure' = Disturbed(ensure, hit) /\ hit \in [Callers -> BOOLEAN]
      /\ UNCHANGED <<defaults, artist, known, asked>>
  BY MishapCounts DEF CatalogInv, EditAlbum
<1>h. \A c \in Callers :
        hit[c] <=> ensure[c].release \in Releases /\ AlbumOf[ensure[c].release] = a
  OBVIOUS
<1> HIDE DEF hit
<1>1. /\ ensure' \in [Callers -> Ensures]
      /\ \A c \in Callers :
           /\ ensure'[c].pc = ensure[c].pc /\ ensure'[c].release = ensure[c].release
           /\ ensure'[c].profile = ensure[c].profile
           /\ hit[c] => ensure'[c].disturbed
           /\ ensure[c].disturbed => ensure'[c].disturbed
  BY <1>0, DisturbedCallers
<1>2. PICK on \in BOOLEAN :
        /\ monitored' = [monitored EXCEPT ![a] = on]
        /\ wished' = IF on THEN wished \union {a} ELSE wished \ {a}
  BY DEF EditAlbum
<1>3. /\ monitored' \in [Albums -> BOOLEAN] /\ monitored'[a] = on
      /\ \A b \in Albums \ {a} : monitored'[b] = monitored[b]
  BY <1>0, <1>2 DEF CatalogType
<1>4. CatalogType'
  BY <1>0, <1>1, <1>2, <1>3 DEF CatalogType
<1>5. ASSUME NEW c \in Callers PROVE Follows(ensure[c])'
  <2>1. Follows(ensure[c])
    BY DEF CatalogInv, CallersFollow
  <2>2. ensure[c].pc = "done" => ensure[c].release \in Releases
    BY <1>0, <2>1 DEF Follows, CatalogType
  <2>3. CASE hit[c]
    BY <1>0, <1>1, <2>1, <2>3 DEF Follows
  <2>4. CASE ~hit[c]
    <3>1. ensure[c].pc = "done" =>
            AlbumOf[ensure[c].release] \in Albums /\ AlbumOf[ensure[c].release] # a
      BY <1>h, <2>2, <2>4 DEF Albums
    <3> QED BY <1>0, <1>1, <1>3, <2>1, <3>1 DEF Follows
  <2> QED BY <2>3, <2>4
<1>6. ProfileExists' /\ OnlyAsked'
  BY <1>0, <1>2, <1>3 DEF CatalogInv, ProfileExists, OnlyAsked
<1> QED BY <1>4, <1>5, <1>6 DEF CatalogInv, CallersFollow

LEMMA CatalogSteps == CatalogInv /\ [CatalogNext]_catalogVars => CatalogInv'
<1> SUFFICES ASSUME CatalogInv, [CatalogNext]_catalogVars PROVE CatalogInv'
  OBVIOUS
<1>1. ASSUME NEW c \in Callers, CallerStep(c) PROVE CatalogInv'
  BY <1>1, CatalogDefaultsKeeps, LookupArtistKeeps, ExistingArtistKeeps, AddArtistKeeps,
     FindReleaseKeeps, RefreshKeeps, MonitorAlbumKeeps, VerifyAlbumKeeps, CallFailsKeeps
     DEF CallerStep
<1>2. ASSUME NEW c \in Callers, NEW r \in Releases, EnsureRelease(c, r) PROVE CatalogInv'
  BY <1>2, EnsureReleaseKeeps
<1>3. CASE UNCHANGED catalogVars
  BY <1>3
     DEF catalogVars, lidarrCatalogVars, CatalogInv, CatalogType, CallersFollow, Follows,
              ProfileExists, OnlyAsked
<1> QED BY <1>1, <1>2, <1>3, LidarrRefreshesKeeps, WithdrawKeeps, EditAlbumKeeps
           DEF CatalogNext

\* EnsureRelease, for any number of callers, releases, profiles and mishaps: a
\* release it has ensured is in the catalogue under a monitored album until the
\* operator or MusicBrainz changes that, its artist has a profile that exists, and
\* no album is monitored that nobody asked for.
THEOREM CatalogIsAsAsked == CatalogSpec => []CatalogAsAsked
<1>1. CatalogInv => CatalogAsAsked
  <2> SUFFICES ASSUME CatalogInv PROVE CatalogAsAsked
    OBVIOUS
  <2>1. \A c \in Callers : Follows(ensure[c])
    BY DEF CatalogInv, CallersFollow
  <2> QED BY <2>1
             DEF CatalogAsAsked, CatalogInv, Follows, FoundSteps, ProfileExists, OnlyAsked
<1> QED BY <1>1, CatalogStarts, CatalogSteps, PTL DEF CatalogSpec

-----------------------------------------------------------------------------
(* The setup of a deployment (Reconcile) *)

Progress == {"idle", "read", "write", "error", "success", "failed"}
Contents == [there : BOOLEAN, owned : SUBSET Settings, mine : {0, 1}]
Deployment(at) ==
  /\ at \in [Resources -> Contents]
  /\ \A r \in Resources : at[r].owned \subseteq Owned(r) /\ (~at[r].there => at[r] = Absent)
ReconcileType ==
  /\ Deployment(state) /\ Deployment(read)
  /\ step \in 0..13 /\ pc \in Progress /\ changed \in BOOLEAN
  /\ pc \in {"read", "write"} => step \in 1..13
  /\ pc = "write" => step \in 1..12
  /\ edited \subseteq Resources /\ raced \subseteq Resources
  /\ wanted \in [Resources -> {0, 1}]

\* The tool holds an answer: to its question, or about the libraries.
Holding == pc = "write" \/ (pc = "read" /\ step = 12)
\* The resources a held answer is used for.
Held == IF step = 12 THEN {"unmanaged"} ELSE Resources
\* A held answer is what the service has, but for what the operator has changed since.
Holds ==
  /\ Holding => /\ read["handling"].there
                /\ \A r \in Held : /\ read[r].there = state[r].there
                                   /\ r \notin edited => read[r] = state[r]
                                   /\ r \in Answering \ raced => read[r].mine = state[r].mine
  /\ ~Holding => read = Unread

\* What the tool has been through is as wanted, but for what was edited.
Done(r) == AsWanted(r, state) \/ Subject(r, state) \in edited
Passed ==
  pc \in {"read", "write", "success"} =>
    \A i \in DOMAIN Order : (pc = "success" \/ i < step) => Done(Order[i])
\* A run that found everything right has nothing to write.
Untouched ==
  quiet => AllWanted(state) /\ ~changed /\ edited = {} /\ pc # "write"
Preferred == \A r \in Resources \ raced : state[r].mine = wanted[r]
ReconcileInv ==
  /\ ReconcileType /\ state["handling"].there
  /\ Holds /\ Passed /\ Untouched /\ Preferred

-----------------------------------------------------------------------------
(* The resources and their order *)

LEMMA OrderFacts ==
  /\ DOMAIN Order = 1..12 /\ Len(Order) = 12
  /\ \A i \in 1..12 : Order[i] \in Resources /\ Order[i] # "legacy"
  /\ \A i \in 1..12 : /\ Order[i] = "managed" <=> i = 11
                      /\ Order[i] = "unmanaged" <=> i = 12
                      /\ Order[i] = "admin" <=> i = 10
  /\ \A i \in 1..12, j \in 1..12 : Order[i] = Order[j] => i = j
<1>1. DOMAIN Order = 1..12 /\ Len(Order) = 12
  BY DEF Order
<1>2. \A i \in 1..12 : i \in {1, 2, 3, 4, 5, 6, 7, 8, 9, 10, 11, 12}
  OBVIOUS
<1>3. \A i \in 1..12 : Order[i] \in Resources
  BY <1>1 DEF Resources
<1>4. /\ Order[1] = "root" /\ Order[2] = "handling" /\ Order[3] = "media" /\ Order[4] = "naming"
      /\ Order[5] = "metadata" /\ Order[6] = "delay" /\ Order[7] = "client"
      /\ Order[8] = "indexer" /\ Order[9] = "user" /\ Order[10] = "admin"
      /\ Order[11] = "managed" /\ Order[12] = "unmanaged"
  BY DEF Order
<1>5. \A i \in 1..12 : /\ Order[i] # "legacy"
                       /\ Order[i] = "managed" <=> i = 11
                       /\ Order[i] = "unmanaged" <=> i = 12
                       /\ Order[i] = "admin" <=> i = 10
  BY <1>2, <1>4
<1>6. \A i \in 1..12, j \in 1..12 : Order[i] = Order[j] => i = j
  BY <1>2, <1>4
<1> QED BY <1>1, <1>3, <1>5, <1>6

LEMMA KnownResources ==
  /\ \A r \in {"root", "handling", "admin", "managed", "unmanaged", "legacy"} : r \in Resources
  /\ Libraries \subseteq Resources
<1>1. \A i \in 1..12 : Order[i] \in Resources
  BY OrderFacts
<1>2. /\ Order[1] = "root" /\ Order[2] = "handling" /\ Order[10] = "admin"
      /\ Order[11] = "managed" /\ Order[12] = "unmanaged"
  BY DEF Order
<1>3. "legacy" \in Resources
  BY DEF Resources
<1>4. /\ "root" \in Resources /\ "handling" \in Resources /\ "admin" \in Resources
      /\ "managed" \in Resources /\ "unmanaged" \in Resources
  BY <1>1, <1>2
<1> QED BY <1>3, <1>4 DEF Libraries

LEMMA OwnedSettings ==
  /\ \A r : Owned(r) \subseteq Settings
  /\ Owned("root") = {} /\ Owned("admin") = {}
BY DEF Owned, Settings

\* A resource is its own subject, but for the managed library.
LEMMA SubjectFacts ==
  ASSUME NEW r \in Resources, NEW at
  PROVE  /\ Subject(r, at) \in Resources
         /\ r # "managed" => Subject(r, at) = r
         /\ Subject(r, at) \in {r, "legacy"}
         /\ Subject(r, at) = "legacy" /\ r # "legacy" => r = "managed"
BY KnownResources DEF Subject

\* A part of the state that a resource's being done depends on.
LEMMA DoneKeeps ==
  ASSUME NEW i \in 1..12, Done(Order[i]), edited \subseteq edited',
         \A r \in IF i = 11 THEN {"managed", "legacy"} ELSE {Order[i]} : state'[r] = state[r]
  PROVE  Done(Order[i])'
<1>1. CASE i = 11
  <2>1. /\ Order[i] = "managed" /\ state'["managed"] = state["managed"]
        /\ state'["legacy"] = state["legacy"]
    BY <1>1, OrderFacts
  <2> QED BY <2>1 DEF Done, AsWanted, Subject
<1>2. CASE i # 11
  <2>1. Order[i] # "managed" /\ state'[Order[i]] = state[Order[i]]
    BY <1>2, OrderFacts
  <2> QED BY <2>1 DEF Done, AsWanted, Subject
<1> QED BY <1>1, <1>2

LEMMA ContentFields ==
  ASSUME NEW at, Deployment(at), NEW r \in Resources
  PROVE  /\ at[r] \in Contents /\ at[r].there \in BOOLEAN /\ at[r].mine \in {0, 1}
         /\ at[r].owned \subseteq Owned(r) /\ at[r] = [there |-> at[r].there, owned |-> at[r].owned, mine |-> at[r].mine]
         /\ ~at[r].there => at[r] = Absent /\ at[r].mine = 0
BY DEF Deployment, Contents, Absent

\* One resource of a deployment is replaced.
LEMMA Replaced ==
  ASSUME NEW at, Deployment(at), NEW r \in Resources, NEW c \in Contents,
         c.owned \subseteq Owned(r), c.there
  PROVE  LET next == [at EXCEPT ![r] = c]
         IN  /\ Deployment(next) /\ next[r] = c
             /\ \A x \in Resources \ {r} : next[x] = at[x]
BY DEF Deployment

LEMMA UnreadFits == Deployment(Unread) /\ ~Unread["handling"].there
BY KnownResources DEF Deployment, Unread, Absent, Contents

-----------------------------------------------------------------------------
(* The steps *)

\* Wherever the tool does not hold an answer, it has put it away.
LEMMA NotHolding ==
  ASSUME ReconcileInv, pc \notin {"read", "write"}
  PROVE  read = Unread
BY DEF ReconcileInv, Holds, Holding

LEMMA ReconcileStarts == ReconcileInit => ReconcileInv
<1> SUFFICES ASSUME ReconcileInit PROVE ReconcileInv
  OBVIOUS
<1>1. PICK odd \in Odd : \E v \in [odd -> UNION {Unlike(r) : r \in odd}] :
        (\A r \in odd : v[r] \in Unlike(r)) /\ state = AtFirst(odd, v)
  BY DEF ReconcileInit
<1>2. PICK v : (\A r \in odd : v[r] \in Unlike(r)) /\ state = AtFirst(odd, v)
  BY <1>1
<1>3. Unbegun
  BY DEF ReconcileInit
<1>4. ASSUME NEW r \in Resources
      PROVE  /\ state[r] \in Contents /\ state[r].owned \subseteq Owned(r) /\ state[r].mine = 0
             /\ ~state[r].there => state[r] = Absent
             /\ r = "handling" => state[r].there
  <2>0. state[r] = IF r \in odd THEN v[r] ELSE IF r = "legacy" THEN Absent ELSE Wanted(r)
    BY <1>2 DEF AtFirst
  <2>1. CASE r \in odd
    <3>1. state[r] = v[r] /\ v[r] \in Unlike(r)
      BY <1>2, <2>0, <2>1
    <3>2. "handling" \notin Created \union {"metadata", "delay", "legacy"}
      BY DEF Created
    <3>3. /\ state[r] \in [there : BOOLEAN, owned : SUBSET Owned(r), mine : {0}]
          /\ ~state[r].there => state[r].owned = {} /\ r \in Created \union {"metadata", "delay", "legacy"}
      BY <3>1 DEF Unlike
    <3> QED BY <3>2, <3>3, OwnedSettings DEF Contents, Absent
  <2>2. CASE r \notin odd /\ r = "legacy"
    <3>1. state[r] = Absent
      BY <2>0, <2>2
    <3> QED BY <2>2, <3>1 DEF Absent, Contents
  <2>3. CASE r \notin odd /\ r # "legacy"
    <3>1. state[r] = Wanted(r)
      BY <2>0, <2>3
    <3> QED BY <3>1, OwnedSettings DEF Wanted, Contents
  <2> QED BY <2>1, <2>2, <2>3
<1>5. state = [r \in Resources |-> state[r]]
  BY <1>2 DEF AtFirst
<1>6. Deployment(state) /\ state["handling"].there
  BY <1>4, <1>5, KnownResources DEF Deployment
<1>7. ReconcileType
  <2>1. Deployment(read)
    BY <1>3, UnreadFits DEF Unbegun
  <2>2. /\ step = 0 /\ pc = "idle" /\ changed = FALSE /\ edited = {} /\ raced = {}
        /\ wanted = [r \in Resources |-> 0]
    BY <1>3 DEF Unbegun
  <2>3. /\ step \in 0..13 /\ pc \in Progress /\ pc \notin {"read", "write"} /\ pc # "write"
        /\ edited \subseteq Resources /\ raced \subseteq Resources
        /\ wanted \in [Resources -> {0, 1}]
    BY <2>2 DEF Progress
  <2>4. changed \in BOOLEAN
    BY <2>2
  <2> QED BY <1>6, <2>1, <2>3, <2>4, Zenon DEF ReconcileType
<1>8. Holds /\ Passed /\ Untouched
  BY <1>3 DEF Holds, Holding, Passed, Untouched, Unbegun
<1>9. Preferred
  BY <1>3, <1>4 DEF Preferred, Unbegun
<1> QED BY <1>6, <1>7, <1>8, <1>9 DEF ReconcileInv

LEMMA BeginKeeps ==
  ASSUME ReconcileInv, pc \in {"idle", "success", "failed", "error"}, Begin
  PROVE  ReconcileInv'
<1>0. ReconcileType /\ read = Unread
  BY NotHolding DEF ReconcileInv
<1>1. /\ step' = 1 /\ pc' = "read" /\ changed' = FALSE /\ edited' = {}
      /\ UNCHANGED <<state, read, wanted, raced>>
  BY DEF Begin
<1>2. quiet' = AllWanted(state)
  BY DEF Begin
<1>3. ReconcileType'
  <2>1. Deployment(state)' /\ Deployment(read)'
    BY <1>0, <1>1 DEF ReconcileType, Deployment
  <2>2. /\ edited' \subseteq Resources /\ raced' \subseteq Resources
        /\ wanted' \in [Resources -> {0, 1}]
    BY <1>0, <1>1 DEF ReconcileType
  <2>3. /\ step' \in 0..13 /\ pc' \in Progress /\ step' \in 1..13 /\ pc' # "write"
    BY <1>1 DEF Progress
  <2>4. changed' \in BOOLEAN
    BY <1>1
  <2> QED BY <2>1, <2>2, <2>3, <2>4, Zenon DEF ReconcileType
<1>4. Holds' /\ Passed'
  BY <1>0, <1>1, OrderFacts DEF Holds, Holding, Passed
<1>5. Untouched'
  <2>1. AllWanted(state)' <=> AllWanted(state)
    BY <1>1 DEF AllWanted, AsWanted, Subject
  <2> QED BY <1>1, <1>2, <2>1 DEF Untouched
<1>6. Preferred' /\ state'["handling"].there
  BY <1>1 DEF ReconcileInv, Preferred
<1> QED BY <1>3, <1>4, <1>5, <1>6 DEF ReconcileInv

LEMMA SetupKeeps ==
  ASSUME ReconcileInv, Setup
  PROVE  ReconcileInv'
BY BeginKeeps DEF Setup

\* The services are left as they are, and so is what the operator did.
LEMMA ServicesStay ==
  ASSUME ReconcileInv, UNCHANGED <<state, historyVars>>
  PROVE  /\ Preferred' /\ state'["handling"].there /\ Deployment(state)'
         /\ edited' \subseteq Resources /\ raced' \subseteq Resources
         /\ wanted' \in [Resources -> {0, 1}]
         /\ \A i \in 1..12 : Done(Order[i]) => Done(Order[i])'
         /\ AllWanted(state) => AllWanted(state)'
<1>1. UNCHANGED <<state, edited, raced, wanted>>
  BY DEF historyVars
<1>2. \A i \in 1..12 : Done(Order[i]) => Done(Order[i])'
  BY <1>1 DEF Done, AsWanted, Subject
<1>3. AllWanted(state) => AllWanted(state)'
  BY <1>1 DEF AllWanted, AsWanted, Subject
<1> QED BY <1>1, <1>2, <1>3 DEF ReconcileInv, ReconcileType, Preferred, Deployment

\* The run ends, or stops with an error.
LEMMA StopKeeps ==
  ASSUME ReconcileInv, UNCHANGED <<state, historyVars, changed, step>>,
         pc' \in {"error", "failed"}, read' = Unread
  PROVE  ReconcileInv'
<1>1. UNCHANGED <<edited, quiet>>
  BY DEF historyVars
<1>2. ReconcileType'
  BY ServicesStay, UnreadFits DEF ReconcileInv, ReconcileType, Progress
<1>3. Holds' /\ Passed'
  BY DEF Holds, Holding, Passed
<1>4. Untouched'
  BY <1>1, ServicesStay DEF ReconcileInv, Untouched
<1> QED BY <1>2, <1>3, <1>4, ServicesStay DEF ReconcileInv

LEMMA RetryKeeps ==
  ASSUME ReconcileInv, Retry
  PROVE  ReconcileInv'
<1>1. pc = "error" /\ read = Unread
  BY NotHolding DEF Retry
<1>2. CASE Begin
  BY <1>1, <1>2, BeginKeeps
<1>3. CASE pc' = "failed" /\ UNCHANGED <<state, step, read, changed, attempt, historyVars, troubles>>
  BY <1>1, <1>3, StopKeeps
<1> QED BY <1>2, <1>3 DEF Retry

LEMMA FinishKeeps ==
  ASSUME ReconcileInv, Finish
  PROVE  ReconcileInv'
<1>0. /\ pc = "read" /\ step = 13 /\ pc' = "success"
      /\ UNCHANGED <<state, step, read, changed, historyVars>>
  BY OrderFacts DEF Finish
<1>1. read = Unread /\ UNCHANGED <<edited, quiet>>
  BY <1>0 DEF ReconcileInv, Holds, Holding, historyVars
<1>2. ReconcileType'
  BY <1>0, <1>1, ServicesStay, UnreadFits DEF ReconcileInv, ReconcileType, Progress
<1>3. Holds'
  BY <1>0, <1>1 DEF Holds, Holding
<1>4. Passed'
  BY <1>0, ServicesStay, OrderFacts DEF ReconcileInv, Passed
<1>5. Untouched'
  BY <1>0, <1>1, ServicesStay DEF ReconcileInv, Untouched
<1> QED BY <1>0, <1>2, <1>3, <1>4, <1>5, ServicesStay DEF ReconcileInv

\* A call that is lost stops the run; nothing was found right any more.
LEMMA LoseCallKeeps ==
  ASSUME ReconcileInv, LoseCall
  PROVE  ReconcileInv'
<1>0. /\ pc' = "error" /\ read' = Unread /\ quiet' = FALSE
      /\ UNCHANGED <<state, step, changed, edited, wanted, raced>>
  BY DEF LoseCall, Trouble
<1>2. ReconcileType'
  BY <1>0, UnreadFits DEF ReconcileInv, ReconcileType, Progress, Deployment
<1>3. Holds' /\ Passed' /\ Untouched'
  BY <1>0 DEF Holds, Holding, Passed, Untouched
<1>4. Preferred' /\ state'["handling"].there
  BY <1>0 DEF ReconcileInv, Preferred
<1> QED BY <1>2, <1>3, <1>4 DEF ReconcileInv

\* A resource that is settled, and that the tool can deal with, is as wanted.
LEMMA SettledIsWanted ==
  ASSUME NEW at, Deployment(at), NEW r \in Resources, Settled(r, at), ~Unfit(r, at)
  PROVE  AsWanted(r, at)
<1> DEFINE s == Subject(r, at)
<1>1. s \in Resources
  BY SubjectFacts
<1>2. at[s].there /\ (s \in Corrected => at[s].owned = Owned(s))
      /\ ~(s = "user" /\ at[s].owned # Owned(s))
  BY DEF Settled, Unfit, Foreign
<1> HIDE DEF s
<1>3. at[s].owned \subseteq Owned(s)
  BY <1>1, ContentFields
<1>4. CASE s \in {"root", "admin"}
  BY <1>2, <1>3, <1>4, OwnedSettings DEF AsWanted, s
<1>5. CASE s \notin {"root", "admin"}
  <2>1. s \in Corrected \/ s = "user"
    BY <1>1, <1>5 DEF Corrected
  <2> QED BY <1>2, <2>1 DEF AsWanted, s
<1> QED BY <1>4, <1>5

LEMMA WantedIsSettled ==
  ASSUME NEW at, NEW r, AsWanted(r, at)
  PROVE  Settled(r, at)
BY DEF AsWanted, Settled

\* The tool goes on to the next resource, with the services as they are.
LEMMA OnwardKeeps ==
  ASSUME ReconcileInv, pc = "read", step \in 1..12, UNCHANGED <<state, changed, historyVars>>,
         NEW answer, Onward(answer), At = "managed" => answer = state, Done(At)
  PROVE  ReconcileInv'
<1>0. /\ step' = step + 1 /\ pc' = "read" /\ UNCHANGED <<state, changed, edited, quiet, raced>>
      /\ read' = IF At = "managed" THEN answer ELSE Unread
  BY DEF Onward, historyVars
<1>1. At = "managed" <=> step = 11
  BY OrderFacts DEF At
<1>2. step' \in 1..13 /\ (step' = 12 <=> step = 11)
  BY <1>0
<1>3. Deployment(read)'
  <2>1. read' = state \/ read' = Unread
    BY <1>0
  <2> QED BY <2>1, UnreadFits DEF ReconcileInv, ReconcileType
<1>4. ReconcileType'
  BY <1>0, <1>2, <1>3, ServicesStay DEF ReconcileInv, ReconcileType, Progress
<1>5. Holds'
  <2>1. CASE step = 11
    BY <1>0, <1>1, <1>2, <2>1 DEF ReconcileInv, Holds, Holding
  <2>2. CASE step # 11
    BY <1>0, <1>1, <1>2, <2>2 DEF Holds, Holding
  <2> QED BY <2>1, <2>2
<1>6. Passed'
  <2>1. ASSUME NEW i \in 1..12, i < step' PROVE Done(Order[i])
    <3>1. i < step \/ i = step
      BY <1>0, <2>1
    <3> QED BY <3>1, OrderFacts DEF ReconcileInv, Passed, At
  <2> QED BY <1>0, <2>1, ServicesStay, OrderFacts DEF Passed
<1>7. Untouched'
  BY <1>0, ServicesStay DEF ReconcileInv, Untouched
<1> QED BY <1>4, <1>5, <1>6, <1>7, ServicesStay DEF ReconcileInv

LEMMA ReadKeeps ==
  ASSUME ReconcileInv, Read
  PROVE  ReconcileInv'
<1> DEFINE answer == IF At = "unmanaged" THEN read ELSE state
<1>0. /\ pc = "read" /\ step \in 1..12 /\ At # "admin" /\ At \in Resources
      /\ UNCHANGED <<state, changed, historyVars>>
      /\ (At = "managed" <=> step = 11) /\ (At = "unmanaged" <=> step = 12)
  BY OrderFacts DEF Read, At
<1>1. /\ \/ Unfit(At, answer) /\ pc' = "error" /\ read' = Unread /\ UNCHANGED step
         \/ ~Unfit(At, answer) /\ Settled(At, answer) /\ Onward(answer)
         \/ ~Unfit(At, answer) /\ ~Settled(At, answer)
            /\ pc' = "write" /\ read' = answer /\ UNCHANGED step
  BY DEF Read
<1>2. Deployment(answer) /\ answer["handling"].there
  BY <1>0 DEF ReconcileInv, ReconcileType, Holds, Holding
<1>3. step = 12 => answer = read /\ Holding
  BY <1>0 DEF Holding
<1>4. step # 12 => answer = state
  BY <1>0
<1> HIDE DEF answer
\* an answer that says the resource is as wanted is right, or the operator edited it
<1>7. /\ quiet => Settled(At, answer)
      /\ ~Unfit(At, answer) /\ Settled(At, answer) => Done(At)
  <2>1. CASE step # 12 \/ "unmanaged" \notin edited
    <3>1. AsWanted(At, answer) <=> AsWanted(At, state)
      <4>1. CASE step # 12
        BY <1>4, <4>1
      <4>2. CASE step = 12
        <5>1. answer["unmanaged"] = state["unmanaged"] /\ At = "unmanaged"
          BY <1>0, <1>3, <2>1, <4>2 DEF ReconcileInv, Holds, Held
        <5> QED BY <5>1 DEF AsWanted, Subject
      <4> QED BY <4>1, <4>2
    <3>2. quiet => Settled(At, answer)
      <4>1. quiet => AsWanted(At, state)
        BY <1>0, OrderFacts DEF ReconcileInv, Untouched, AllWanted, At
      <4> QED BY <3>1, <4>1, WantedIsSettled
    <3>3. ~Unfit(At, answer) /\ Settled(At, answer) => Done(At)
      BY <1>0, <1>2, <3>1, SettledIsWanted DEF Done
    <3> QED BY <3>2, <3>3
  <2>2. CASE step = 12 /\ "unmanaged" \in edited
    <3>1. ~quiet
      BY <2>2 DEF ReconcileInv, Untouched
    <3>2. Done(At)
      BY <1>0, <2>2 DEF Done, Subject
    <3> QED BY <3>1, <3>2
  <2> QED BY <2>1, <2>2
<1>8. CASE pc' = "error" /\ read' = Unread /\ UNCHANGED step
  BY <1>0, <1>8, StopKeeps
<1>9. CASE ~Unfit(At, answer) /\ Settled(At, answer) /\ Onward(answer)
  <2>1. Done(At) /\ (At = "managed" => answer = state)
    BY <1>0, <1>4, <1>7, <1>9
  <2> QED BY <1>0, <1>9, <2>1, OnwardKeeps
<1>10. CASE ~Settled(At, answer) /\ pc' = "write" /\ read' = answer /\ UNCHANGED step
  <2>1. ~quiet /\ UNCHANGED <<step, quiet, edited, raced, state>>
    BY <1>0, <1>7, <1>10 DEF historyVars
  <2>2. Deployment(read)'
    BY <1>2, <1>10
  <2>3. ReconcileType'
    BY <1>0, <1>10, <2>1, <2>2, ServicesStay DEF ReconcileInv, ReconcileType, Progress
  <2>4. Holds'
    <3>1. CASE step = 12
      <4>1. read' = read /\ Holding /\ Holding' /\ (Answering' = Answering) /\ Held' = Held
        BY <1>0, <1>3, <1>10, <2>1, <3>1 DEF Holding, Answering, At, Held
      <4> QED BY <2>1, <4>1 DEF ReconcileInv, Holds
    <3>2. CASE step # 12
      <4>1. read' = state /\ state' = state /\ Holding' /\ read'["handling"].there
        BY <1>2, <1>4, <1>10, <2>1, <3>2 DEF Holding
      <4> QED BY <4>1 DEF Holds
    <3> QED BY <3>1, <3>2
  <2>5. Passed'
    BY <1>0, <1>10, <2>1, ServicesStay, OrderFacts DEF ReconcileInv, Passed
  <2>6. Untouched'
    BY <2>1 DEF Untouched
  <2> QED BY <1>0, <2>3, <2>4, <2>5, <2>6, ServicesStay DEF ReconcileInv
<1> QED BY <1>1, <1>8, <1>9, <1>10

\* What is sent for a resource that was read.
LEMMA SentFits ==
  ASSUME Deployment(state), Deployment(read), NEW s \in Resources
  PROVE  LET sent == Sent(s, read[s])
             next == [state EXCEPT ![s] = sent]
         IN  /\ sent.there /\ sent.owned = Owned(s) /\ sent.mine = read[s].mine
             /\ Deployment(next) /\ next[s] = sent
             /\ \A r \in Resources \ {s} : next[r] = state[r]
<1> DEFINE sent == Sent(s, read[s])
<1>1. /\ sent \in Contents /\ sent.there /\ sent.owned = Owned(s) /\ sent.mine = read[s].mine
  <2>1. read[s].mine \in {0, 1} /\ Owned(s) \subseteq Settings
    BY ContentFields, OwnedSettings
  <2> QED BY <2>1 DEF Sent, SetOwned, Contents
<1> HIDE DEF sent
<1>2. /\ Deployment([state EXCEPT ![s] = sent]) /\ [state EXCEPT ![s] = sent][s] = sent
      /\ \A r \in Resources \ {s} : [state EXCEPT ![s] = sent][r] = state[r]
  BY <1>1, Replaced
<1> QED BY <1>1, <1>2 DEF sent

\* A write brings the resource of the step to what is wanted, keeps what the
\* operator prefers, and leaves the resources the tool has been through.
LEMMA WriteSets ==
  ASSUME ReconcileInv, pc = "write", UNCHANGED <<edited, wanted, raced>>, NEW s,
         Subject(At, read) = s, state' = [state EXCEPT ![s] = Sent(s, read[s])]
  PROVE  /\ Deployment(state)' /\ state'["handling"].there /\ Preferred'
         /\ \A i \in 1..12 : i <= step => Done(Order[i])'
         /\ step \in 1..12
         /\ \A r \in Resources \ {s} : state'[r] = state[r]
         /\ step = 11 => s # "unmanaged"
<1>0. /\ step \in 1..12 /\ At \in Resources /\ At # "legacy"
      /\ (At = "managed" <=> step = 11) /\ (At = "unmanaged" <=> step = 12)
      /\ At = Order[step] /\ Holding /\ Deployment(state) /\ Deployment(read)
  BY OrderFacts DEF At, ReconcileInv, ReconcileType, Holding
<1>1. s \in Resources /\ s \in {At, "legacy"} /\ (At # "managed" => s = At)
      /\ (s = "legacy" => At = "managed")
  BY <1>0, SubjectFacts
<1>2. s \in Answering
  BY <1>0, <1>1 DEF Answering, Libraries
<1>3. \A r \in Held : read[r].there = state[r].there
  BY <1>0 DEF ReconcileInv, Holds
<1>4. s \in Held
  BY <1>0, <1>1 DEF Held
<1>5. s \notin raced => read[s].mine = state[s].mine
  BY <1>0, <1>2, <1>4 DEF ReconcileInv, Holds
<1> DEFINE sent == Sent(s, read[s])
<1>6. /\ sent.there /\ sent.owned = Owned(s) /\ sent.mine = read[s].mine
      /\ Deployment([state EXCEPT ![s] = sent]) /\ [state EXCEPT ![s] = sent][s] = sent
      /\ \A r \in Resources \ {s} : [state EXCEPT ![s] = sent][r] = state[r]
  BY <1>0, <1>1, SentFits
<1> HIDE DEF sent
<1>7. Deployment(state)' /\ state'[s] = sent /\ \A r \in Resources \ {s} : state'[r] = state[r]
  <2>1. state' = [state EXCEPT ![s] = sent]
    BY DEF sent
  <2>2. Deployment(state')
    BY <1>6, <2>1
  <2> QED BY <1>6, <2>1, <2>2 DEF Deployment
<1>8. state'["handling"].there
  BY <1>6, <1>7, KnownResources DEF ReconcileInv
<1>9. Preferred'
  <2>1. ASSUME NEW r \in Resources \ raced PROVE state'[r].mine = wanted[r]
    BY <1>5, <1>6, <1>7 DEF ReconcileInv, Preferred
  <2> QED BY <2>1 DEF Preferred
<1>10. ASSUME NEW i \in 1..12, i <= step PROVE Done(Order[i])'
  <2>1. CASE i = step
    <3>1. Subject(At, state') = s
      <4>1. CASE step = 11
        <5>1. /\ read["managed"].there = state["managed"].there
              /\ read["legacy"].there = state["legacy"].there
          BY <1>3, <4>1, KnownResources DEF Held
        <5>2. At = "managed" /\ (s = "managed" \/ s = "legacy")
          BY <1>0, <1>1, <4>1
        <5>3. CASE s = "managed"
          BY <1>6, <1>7, <5>2, <5>3 DEF Subject
        <5>4. CASE s = "legacy"
          <6>1. ~read["managed"].there /\ s # "managed"
            BY <5>2, <5>4 DEF Subject
          <6>2. ~state'["managed"].there /\ state'["legacy"].there
            BY <1>6, <1>7, <5>1, <5>4, <6>1, KnownResources
          <6> QED BY <5>2, <5>4, <6>2 DEF Subject
        <5> QED BY <5>2, <5>3, <5>4
      <4>2. CASE step # 11
        BY <1>0, <1>1, <4>2, SubjectFacts
      <4> QED BY <4>1, <4>2
    <3>2. AsWanted(At, state')
      BY <1>6, <1>7, <3>1 DEF AsWanted
    <3> QED BY <1>0, <2>1, <3>2 DEF Done, AsWanted, Subject
  <2>2. CASE i # step
    <3>1. i < step
      BY <1>0, <1>10, <2>2
    <3>2. Done(Order[i])
      BY <3>1, OrderFacts DEF ReconcileInv, Passed
    <3>3. Order[i] # s /\ Order[i] \in Resources /\ (i = 11 => s = "unmanaged")
      <4>1. Order[i] # Order[step] /\ Order[i] # "legacy"
        BY <1>0, <3>1, OrderFacts
      <4>2. i = 11 => step = 12
        BY <1>0, <3>1
      <4> QED BY <1>0, <1>1, <4>1, <4>2, OrderFacts
    <3>4. \A r \in IF i = 11 THEN {"managed", "legacy"} ELSE {Order[i]} : state'[r] = state[r]
      BY <1>7, <3>3, KnownResources
    <3> QED BY <3>2, <3>4, DoneKeeps
  <2> QED BY <2>1, <2>2
<1> QED BY <1>0, <1>1, <1>2, <1>7, <1>8, <1>9, <1>10

LEMMA WriteKeeps ==
  ASSUME ReconcileInv, Write
  PROVE  ReconcileInv'
<1> DEFINE s == Subject(At, read)
<1>0. /\ pc = "write" /\ changed' = TRUE /\ UNCHANGED <<edited, wanted, raced, quiet>>
      /\ step' = step + 1 /\ pc' = "read"
      /\ read' = IF At = "managed" THEN read ELSE Unread
      /\ state' = [state EXCEPT ![s] = Sent(s, read[s])]
  BY DEF Write, Onward, historyVars
<1> HIDE DEF s
<1>1. /\ Deployment(state)' /\ state'["handling"].there /\ Preferred' /\ step \in 1..12
      /\ \A i \in 1..12 : i <= step => Done(Order[i])'
      /\ \A r \in Resources \ {s} : state'[r] = state[r]
      /\ step = 11 => s # "unmanaged"
  BY <1>0, WriteSets DEF s
<1>2. At = "managed" <=> step = 11
  BY <1>1, OrderFacts DEF At
<1>3. step' \in 1..13 /\ (step' = 12 <=> step = 11) /\ \A i \in 1..12 : i < step' => i <= step
  BY <1>0, <1>1
<1>4. Deployment(read)'
  <2>1. read' = read \/ read' = Unread
    BY <1>0
  <2> QED BY <2>1, UnreadFits DEF ReconcileInv, ReconcileType
<1>5. ReconcileType'
  <2>1. edited' \subseteq Resources /\ raced' \subseteq Resources /\ wanted' \in [Resources -> {0, 1}]
    BY <1>0 DEF ReconcileInv, ReconcileType
  <2>2. step' \in 0..13 /\ pc' \in Progress /\ pc' # "write"
    BY <1>0, <1>3 DEF Progress
  <2>3. changed' \in BOOLEAN
    BY <1>0
  <2> QED BY <1>1, <1>3, <1>4, <2>1, <2>2, <2>3, Zenon DEF ReconcileType
<1>6. Holds'
  <2>1. CASE step = 11
    <3>1. Holding /\ Holding' /\ read' = read /\ Held = Resources /\ Held' = {"unmanaged"}
      BY <1>0, <1>2, <1>3, <2>1 DEF Holding, Held
    <3>2. Answering = Libraries
      BY <1>2, <2>1 DEF Answering, Libraries
    <3>3. state'["unmanaged"] = state["unmanaged"] /\ "unmanaged" \in Resources \cap Libraries
      BY <1>1, <2>1, KnownResources DEF Libraries
    <3> QED BY <1>0, <3>1, <3>2, <3>3 DEF ReconcileInv, Holds
  <2>2. CASE step # 11
    BY <1>0, <1>2, <1>3, <2>2 DEF Holds, Holding
  <2> QED BY <2>1, <2>2
<1>7. Passed'
  BY <1>0, <1>1, <1>3, OrderFacts DEF Passed
<1>8. Untouched'
  BY <1>0 DEF ReconcileInv, Untouched
<1> QED BY <1>1, <1>5, <1>6, <1>7, <1>8 DEF ReconcileInv

LEMMA LoseAnswerKeeps ==
  ASSUME ReconcileInv, LoseAnswer
  PROVE  ReconcileInv'
<1> DEFINE s == Subject(At, read)
<1>0. /\ pc = "write" /\ UNCHANGED <<step, changed, edited, wanted, raced>>
      /\ pc' = "error" /\ read' = Unread /\ quiet' = FALSE
      /\ state' = [state EXCEPT ![s] = Sent(s, read[s])]
  BY DEF LoseAnswer, Trouble
<1> HIDE DEF s
<1>1. Deployment(state)' /\ state'["handling"].there /\ Preferred'
  BY <1>0, WriteSets DEF s
<1>2. Deployment(read')
  BY <1>0, UnreadFits
<1>3. ReconcileType'
  BY <1>0, <1>1, <1>2 DEF ReconcileInv, ReconcileType, Progress
<1>4. Holds' /\ Passed' /\ Untouched'
  BY <1>0 DEF Holds, Holding, Passed, Untouched
<1> QED BY <1>1, <1>3, <1>4 DEF ReconcileInv

LEMMA EnsureAdministratorKeeps ==
  ASSUME ReconcileInv, EnsureAdministrator
  PROVE  ReconcileInv'
<1>0. /\ pc = "read" /\ step = 10 /\ At = "admin" /\ UNCHANGED <<edited, wanted, raced, quiet>>
      /\ state' = IF state["admin"].there THEN state ELSE [state EXCEPT !["admin"] = Wanted("admin")]
      /\ changed' = (changed \/ ~state["admin"].there)
      /\ step' = 11 /\ pc' = "read" /\ read' = Unread
  BY OrderFacts DEF EnsureAdministrator, Onward, At, historyVars
<1>1. "admin" \in Resources /\ Order[10] = "admin" /\ Deployment(state)
  BY KnownResources DEF Order, ReconcileInv, ReconcileType
<1>2. state["admin"].there \in BOOLEAN /\ state["admin"].owned \subseteq Owned("admin")
      /\ (~state["admin"].there => state["admin"].mine = 0)
  BY <1>1, ContentFields
<1>3. /\ Deployment(state') /\ state'["admin"].there /\ state'["admin"].owned = Owned("admin")
      /\ state'["admin"].mine = state["admin"].mine
      /\ \A r \in Resources \ {"admin"} : state'[r] = state[r]
  <2>1. CASE state["admin"].there
    <3>1. state' = state
      BY <1>0, <2>1
    <3> QED BY <1>1, <1>2, <2>1, <3>1, OwnedSettings
  <2>2. CASE ~state["admin"].there
    <3>1. state' = [state EXCEPT !["admin"] = Wanted("admin")]
      BY <1>0, <2>2
    <3>2. /\ Wanted("admin") \in Contents /\ Wanted("admin").there
          /\ Wanted("admin").owned = Owned("admin") /\ Wanted("admin").mine = 0
      BY OwnedSettings DEF Wanted, Contents
    <3>3. Wanted("admin").owned \subseteq Owned("admin")
      BY <3>2
    <3> DEFINE new == Wanted("admin")
    <3> HIDE DEF new
    <3>4. /\ Deployment([state EXCEPT !["admin"] = new])
          /\ [state EXCEPT !["admin"] = new]["admin"] = new
          /\ \A r \in Resources \ {"admin"} : [state EXCEPT !["admin"] = new][r] = state[r]
      <4>1. new \in Contents /\ new.owned \subseteq Owned("admin") /\ new.there
        BY <3>2, <3>3 DEF new
      <4> QED BY <1>1, <4>1, Replaced
    <3>5. state' = [state EXCEPT !["admin"] = new]
      BY <3>1 DEF new
    <3>6. new = Wanted("admin")
      BY DEF new
    <3> QED BY <1>2, <2>2, <3>2, <3>4, <3>5, <3>6
  <2> QED BY <1>2, <2>1, <2>2
<1>4. Deployment(read') /\ read' = Unread
  BY <1>0, UnreadFits
<1>5. ReconcileType'
  <2>1. edited' \subseteq Resources /\ raced' \subseteq Resources /\ wanted' \in [Resources -> {0, 1}]
    BY <1>0 DEF ReconcileInv, ReconcileType
  <2>2. step' \in 0..13 /\ step' \in 1..13 /\ pc' \in Progress /\ pc' # "write"
    BY <1>0 DEF Progress
  <2>3. changed' \in BOOLEAN
    BY <1>0
  <2>4. Deployment(state)' /\ Deployment(read)'
    BY <1>3, <1>4 DEF Deployment
  <2> QED BY <2>1, <2>2, <2>3, <2>4, Zenon DEF ReconcileType
<1>6. Holds'
  BY <1>0 DEF Holds, Holding
<1>7. Passed'
  <2>1. ASSUME NEW i \in 1..12, i < 11 PROVE Done(Order[i])'
    <3>1. CASE i = 10
      BY <1>1, <1>3, <3>1 DEF Done, AsWanted, Subject
    <3>2. CASE i # 10
      <4>1. i < step /\ Order[i] # "admin" /\ Order[i] \in Resources /\ i # 11
        BY <1>0, <2>1, <3>2, OrderFacts
      <4>2. Done(Order[i])
        BY <1>0, <4>1, OrderFacts DEF ReconcileInv, Passed
      <4> QED BY <1>0, <1>3, <4>1, <4>2, DoneKeeps
    <3> QED BY <3>1, <3>2
  <2> QED BY <1>0, <2>1, OrderFacts DEF Passed
<1>8. Untouched'
  <2>1. ASSUME quiet PROVE AllWanted(state)' /\ ~changed' /\ edited' = {} /\ pc' # "write"
    <3>1. AllWanted(state) /\ ~changed /\ edited = {}
      BY <2>1 DEF ReconcileInv, Untouched
    <3>2. AsWanted("admin", state)
      BY <1>1, <3>1, OrderFacts DEF AllWanted
    <3>3. state["admin"].there
      BY <3>2 DEF AsWanted, Subject
    <3>4. state' = state
      BY <1>0, <3>3
    <3>5. AllWanted(state)'
      BY <3>1, <3>4 DEF AllWanted, AsWanted, Subject
    <3> QED BY <1>0, <3>1, <3>3, <3>5
  <2> QED BY <1>0, <2>1 DEF Untouched
<1>9. Preferred' /\ state'["handling"].there
  <2>1. \A r \in Resources : state'[r].mine = state[r].mine
    BY <1>3
  <2>2. state'["handling"].there
    BY <1>3, KnownResources DEF ReconcileInv
  <2> QED BY <1>0, <2>1, <2>2 DEF ReconcileInv, Preferred
<1> QED BY <1>5, <1>6, <1>7, <1>8, <1>9 DEF ReconcileInv

\* What the operator edits is marked, as raced when the tool holds an answer about it.
LEMMA EditKeeps ==
  ASSUME ReconcileInv, NEW r \in Resources, Edit(r)
  PROVE  ReconcileInv'
<1>0. /\ state[r].there /\ quiet' = FALSE /\ UNCHANGED <<step, pc, read, changed>>
      /\ wanted' = [wanted EXCEPT ![r] = 1] /\ edited' = edited \union {r}
      /\ raced' = IF read # Unread /\ r \in Answering THEN raced \union {r} ELSE raced
  BY DEF Edit, Trouble, toolVars
<1>1. PICK lost \in SUBSET Owned(r) :
        state' = [state EXCEPT ![r].owned = @ \ lost, ![r].mine = 1]
  BY DEF Edit
<1>2. Deployment(state) /\ Deployment(read)
  BY DEF ReconcileInv, ReconcileType
<1>3. state[r] \in Contents /\ state[r].owned \subseteq Owned(r)
  BY <1>2, ContentFields
<1> DEFINE new == [state[r] EXCEPT !.owned = @ \ lost, !.mine = 1]
<1>4. new \in Contents /\ new.there /\ new.mine = 1 /\ new.owned \subseteq Owned(r)
  BY <1>0, <1>3 DEF Contents
<1>5. state' = [state EXCEPT ![r] = new]
  BY <1>1, <1>2 DEF Deployment
<1> HIDE DEF new
<1>6. /\ Deployment(state') /\ state'[r].there /\ state'[r].mine = 1
      /\ \A x \in Resources \ {r} : state'[x] = state[x]
  <2>1. /\ Deployment([state EXCEPT ![r] = new]) /\ [state EXCEPT ![r] = new][r] = new
        /\ \A x \in Resources \ {r} : [state EXCEPT ![r] = new][x] = state[x]
    BY <1>2, <1>4, Replaced
  <2> QED BY <1>4, <1>5, <2>1
<1>7. \A x \in Resources : state'[x].there = state[x].there
  <2>1. \A x \in Resources : state[x].there \in BOOLEAN /\ state'[x].there \in BOOLEAN
    BY <1>2, <1>6, ContentFields
  <2> QED BY <1>0, <1>6, <2>1
<1>8. ReconcileType'
  <2>1. edited' \subseteq Resources /\ wanted' \in [Resources -> {0, 1}]
    BY <1>0 DEF ReconcileInv, ReconcileType
  <2>2. raced' \subseteq Resources
    BY <1>0 DEF ReconcileInv, ReconcileType
  <2>3. Deployment(state)' /\ Deployment(read)'
    BY <1>0, <1>2, <1>6 DEF Deployment
  <2> QED BY <1>0, <2>1, <2>2, <2>3 DEF ReconcileInv, ReconcileType
<1>9. Holds'
  <2>1. CASE Holding
    <3>1. Holding' /\ Answering' = Answering /\ Held' = Held /\ read' = read
      BY <1>0, <2>1 DEF Holding, Answering, Held, At
    <3>2. read["handling"].there
      BY <2>1 DEF ReconcileInv, Holds
    <3>3. read # Unread
      BY <3>2, UnreadFits
    <3>4. Held \subseteq Resources
      BY KnownResources DEF Held
    <3>5. ASSUME NEW x \in Held
          PROVE  /\ read[x].there = state'[x].there
                 /\ x \notin edited' => read[x] = state'[x]
                 /\ x \in Answering \ raced' => read[x].mine = state'[x].mine
      <4>1. /\ read[x].there = state[x].there
            /\ x \notin edited => read[x] = state[x]
            /\ x \in Answering \ raced => read[x].mine = state[x].mine
        BY <2>1, <3>5 DEF ReconcileInv, Holds
      <4>2. CASE x = r
        BY <1>0, <1>7, <3>3, <3>4, <4>1, <4>2
      <4>3. CASE x # r
        BY <1>0, <1>6, <1>7, <3>4, <4>1, <4>3
      <4> QED BY <4>2, <4>3
    <3> QED BY <3>1, <3>2, <3>5 DEF Holds
  <2>2. CASE ~Holding
    <3>1. ~Holding' /\ read = Unread
      BY <1>0, <2>2 DEF ReconcileInv, Holds, Holding
    <3> QED BY <1>0, <3>1 DEF Holds
  <2> QED BY <2>1, <2>2
<1>10. ASSUME NEW i \in 1..12, Done(Order[i]) PROVE Done(Order[i])'
  <2> DEFINE s == Subject(Order[i], state)
  <2>1. s \in Resources /\ Order[i] \in Resources
    BY OrderFacts, SubjectFacts
  <2>2. Subject(Order[i], state') = s
    BY <1>7, KnownResources DEF Subject
  <2>3. (state'[s].there /\ state'[s].owned = Owned(s)) \/ s \in edited'
    <3>1. (state[s].there /\ state[s].owned = Owned(s)) \/ s \in edited
      BY <1>10 DEF Done, AsWanted
    <3> HIDE DEF s
    <3> QED BY <1>0, <1>6, <2>1, <3>1
  <2> HIDE DEF s
  <2> QED BY <2>2, <2>3 DEF Done, AsWanted, Subject
<1>11. Passed'
  BY <1>0, <1>10, OrderFacts DEF ReconcileInv, Passed
<1>12. Untouched' /\ state'["handling"].there
  BY <1>0, <1>7, KnownResources DEF ReconcileInv, Untouched
<1>13. Preferred'
  <2>1. ASSUME NEW x \in Resources \ raced' PROVE state'[x].mine = wanted'[x]
    <3>1. x \notin raced /\ wanted \in [Resources -> {0, 1}]
      BY <1>0, <2>1 DEF ReconcileInv, ReconcileType
    <3>2. state[x].mine = wanted[x]
      BY <3>1 DEF ReconcileInv, Preferred
    <3> QED BY <1>0, <1>6, <3>1, <3>2
  <2> QED BY <2>1 DEF Preferred
<1> QED BY <1>8, <1>9, <1>11, <1>12, <1>13 DEF ReconcileInv

LEMMA ReconcileSteps == ReconcileInv /\ [ReconcileNext]_reconcileVars => ReconcileInv'
<1> SUFFICES ASSUME ReconcileInv, [ReconcileNext]_reconcileVars PROVE ReconcileInv'
  OBVIOUS
<1>1. CASE UNCHANGED reconcileVars
  <2>1. /\ UNCHANGED <<state, historyVars>> /\ UNCHANGED <<step, pc, read, changed>>
        /\ UNCHANGED <<edited, quiet, raced>>
    BY <1>1 DEF reconcileVars, toolVars, historyVars
  <2>2. ReconcileType'
    <3>1. Deployment(read)'
      BY <2>1 DEF ReconcileInv, ReconcileType, Deployment
    <3> QED BY <2>1, <3>1, ServicesStay DEF ReconcileInv, ReconcileType
  <2>3. Holds'
    BY <2>1 DEF ReconcileInv, Holds, Holding, Held, Answering, At
  <2>4. Passed' /\ Untouched'
    BY <2>1, ServicesStay, OrderFacts DEF ReconcileInv, Passed, Untouched
  <2> QED BY <2>1, <2>2, <2>3, <2>4, ServicesStay DEF ReconcileInv
<1> QED BY <1>1, SetupKeeps, RetryKeeps, ReadKeeps, WriteKeeps, EnsureAdministratorKeeps,
           FinishKeeps, LoseCallKeeps, LoseAnswerKeeps, EditKeeps DEF ReconcileNext, Tool

\* The inductive invariant holds throughout.
LEMMA ReconcileAlways == ReconcileSpec => []ReconcileInv
BY ReconcileStarts, ReconcileSteps, PTL DEF ReconcileSpec

\* The setup, for any number of runs, attempts and troubles: one that succeeds
\* leaves every resource as the system needs it, but for those the operator has
\* edited meanwhile, and one that found all of it right changed nothing.
THEOREM SetupDoesConfigure == ReconcileSpec => []SetupConfigures
<1>1. ReconcileInv => SetupConfigures
  <2> SUFFICES ASSUME ReconcileInv, pc = "success"
               PROVE  /\ \A i \in DOMAIN Order : Done(Order[i])
                      /\ quiet => ~changed
    BY DEF SetupConfigures, Done
  <2> QED BY DEF ReconcileInv, Passed, Untouched
<1> QED BY <1>1, ReconcileAlways, PTL

\* What the operator prefers in a shared resource is kept, unless he edits it
\* between the tool's read and its write.
THEOREM PreferencesAreKept == ReconcileSpec => []PreferencesKept
<1>1. ReconcileInv => PreferencesKept
  BY DEF ReconcileInv, Preferred, PreferencesKept
<1> QED BY <1>1, ReconcileAlways, PTL

-----------------------------------------------------------------------------
(* The plan of an unmanaged release (SubmissionPlan): its layout gives every *)
(* entry of the work directory one place, and its tags read back as the plan.*)

\* In a valid plan two tracks of a disc have two numbers: as many numbers
\* as tracks leave none to share.
LEMMA NumbersDiffer ==
  ASSUME NEW plan, PlanForm(plan), ValidPlan(plan),
         NEW s \in plan.tracks, NEW t \in plan.tracks, s.disc = t.disc, s.track = t.track
  PROVE  s = t
<1> DEFINE on == On(plan, s.disc)
           number == [x \in on |-> x.track]
<1>1. IsFiniteSet(on)
  BY FS_Subset DEF PlanForm, On
<1>2. Cardinality(on) \in Nat
  BY <1>1, FS_CardinalityType
<1>3. s \in on /\ t \in on
  BY DEF On
<1>4. {x.track : x \in on} = 1..Cardinality(on)
  BY DEF ValidPlan, TrackComplete, NumberedFromOne
<1>5. number \in Surjection(on, 1..Cardinality(on))
  BY <1>4 DEF Surjection
<1>6. Cardinality(1..Cardinality(on)) = Cardinality(on)
  BY <1>2, FS_Interval
<1>7. number \in Injection(on, 1..Cardinality(on))
  BY <1>1, <1>5, <1>6, FS_SurjSameCardinalityImpliesInj
<1> HIDE DEF on
<1> QED BY <1>3, <1>7 DEF Injection, IsInjective

\* The tracks of a valid plan never share a target.
LEMMA NoCollision ==
  ASSUME NEW plan, PlanForm(plan), ValidPlan(plan)
  PROVE  ~Collision(plan)
<1> SUFFICES ASSUME NEW s \in plan.tracks, NEW t \in plan.tracks, Target(plan, s) = Target(plan, t)
             PROVE  s = t
  BY DEF Collision
<1>1. s.track = t.track
  BY DEF Target
<1>2. s.disc = t.disc
  <2>1. s.disc \in 1..plan.discTotal /\ t.disc \in 1..plan.discTotal /\ plan.discTotal \in Int
    BY DEF ValidPlan, TrackComplete, PlanForm
  <2>2. CASE plan.discTotal > 1
    BY <2>2 DEF Target
  <2>3. CASE ~(plan.discTotal > 1)
    BY <2>1, <2>3
  <2> QED BY <2>2, <2>3
<1> QED BY <1>1, <1>2, NumbersDiffer

\* The numbers of the tracks are bounded by the number of tracks.
LEMMA NumbersBounded ==
  ASSUME NEW plan, PlanForm(plan), ValidPlan(plan), NEW t \in plan.tracks
  PROVE  /\ t.track \in 1..Cardinality(plan.tracks) /\ Cardinality(plan.tracks) \in Nat
         /\ t.disc \in 1..plan.discTotal /\ plan.discTotal \in Nat
<1> DEFINE on == On(plan, t.disc)
<1>1. t.disc \in 1..plan.discTotal /\ plan.discTotal \in Nat
  <2>1. TrackComplete(plan, t) /\ plan.discTotal > 0
    BY DEF ValidPlan
  <2>2. t.disc \in 1..plan.discTotal
    BY <2>1 DEF TrackComplete
  <2>3. plan.discTotal \in Int
    BY DEF PlanForm
  <2> QED BY <2>1, <2>2, <2>3
<1>2. on \in SUBSET plan.tracks /\ t \in on
  BY DEF On
<1>3. /\ Cardinality(on) \in Nat /\ Cardinality(plan.tracks) \in Nat
      /\ Cardinality(on) <= Cardinality(plan.tracks)
  BY <1>2, FS_Subset, FS_CardinalityType DEF PlanForm
<1>4. {x.track : x \in on} = 1..Cardinality(on)
  BY <1>1 DEF ValidPlan, NumberedFromOne
<1> HIDE DEF on
<1>5. t.track \in 1..Cardinality(on)
  BY <1>2, <1>4
<1> QED BY <1>1, <1>3, <1>5

\* Lyrics that have the name of a track have a track to go with.
LEMMA NamedTrack ==
  ASSUME NEW plan, PlanForm(plan), ValidPlan(plan),
         NEW base, base \in {t.path.base : t \in plan.tracks}
  PROVE  TrackNamed(plan, base) \in plan.tracks /\ TrackNamed(plan, base).path.base = base
<1> DEFINE named == {t \in plan.tracks : t.path.base = base}
           total == Cardinality(plan.tracks)
           fromEnd == {plan.discTotal - t.disc : t \in named}
<1>1. named # {} /\ named \subseteq plan.tracks
  OBVIOUS
<1>2. \A t \in named : /\ plan.discTotal - t.disc \in Nat /\ total - t.track \in Nat
                       /\ plan.discTotal \in Nat /\ total \in Nat /\ t.disc \in Nat /\ t.track \in Nat
  BY NumbersBounded
<1> HIDE DEF named, total
<1>3. PICK last \in named : \A t \in named : t.disc <= last.disc
  <2>1. fromEnd \subseteq Nat /\ fromEnd # {}
    BY <1>1, <1>2
  <2>2. PICK n \in fromEnd : \A m \in fromEnd : n <= m
    BY <2>1, LeastNumber
  <2>3. PICK last \in named : n = plan.discTotal - last.disc
    BY <2>2
  <2>4. ASSUME NEW t \in named PROVE t.disc <= last.disc
    <3>1. n <= plan.discTotal - t.disc
      BY <2>2
    <3> QED BY <2>3, <3>1, <1>2
  <2> QED BY <2>4
<1> DEFINE final == {t \in named : t.disc = last.disc}
           numbers == {total - t.track : t \in final}
<1>4. PICK latest \in final : \A t \in final : t.track <= latest.track
  <2>1. numbers \subseteq Nat /\ numbers # {}
    BY <1>2
  <2>2. PICK n \in numbers : \A m \in numbers : n <= m
    BY <2>1, LeastNumber
  <2>3. PICK latest \in final : n = total - latest.track
    BY <2>2
  <2>4. ASSUME NEW t \in final PROVE t.track <= latest.track
    <3>1. n <= total - t.track
      BY <2>2
    <3> QED BY <2>3, <3>1, <1>2
  <2> QED BY <2>4
<1>5. ASSUME NEW t \in named, t # latest PROVE Before(t, latest)
  <2>1. latest \in plan.tracks /\ t \in plan.tracks /\ latest.disc = last.disc
    BY <1>1, <1>4
  <2>2. t.disc = latest.disc => t.track # latest.track
    BY <1>5, <2>1, NumbersDiffer
  <2>3. t.disc <= latest.disc /\ (t.disc = latest.disc => t.track <= latest.track)
    BY <1>3, <1>4, <2>1
  <2> QED BY <1>2, <1>4, <2>2, <2>3 DEF Before
<1>6. latest \in plan.tracks /\ latest.path.base = base
  BY <1>4 DEF named
<1>7. \A s \in plan.tracks : s.path.base = base /\ s # latest => Before(s, latest)
  BY <1>5 DEF named
<1> QED BY <1>6, <1>7, Zenon DEF TrackNamed

\* A track's entry takes its FLAC file to its numbered target.
LEMMA TrackPlace ==
  ASSUME NEW plan, PlanForm(plan), ValidPlan(plan), NEW f \in TrackFiles(plan)
  PROVE  /\ \E t \in plan.tracks : f = [source |-> t.path, target |-> Target(plan, t)]
         /\ f.source \in {t.path : t \in plan.tracks} /\ f.source \in FLACPaths
         /\ f.target.number > 0 /\ f.target.ext = "flac"
<1>1. PICK t \in plan.tracks : f = [source |-> t.path, target |-> Target(plan, t)]
  BY DEF TrackFiles
<1>2. t.path \in FLACPaths
  BY DEF PlanForm
<1>3. t.track > 0
  BY DEF ValidPlan, TrackComplete
<1>4. f.source = t.path /\ f.target = Target(plan, t)
  BY <1>1
<1>5. f.target.number = t.track /\ f.target.ext = "flac"
  BY <1>4 DEF Target
<1> QED BY <1>1, <1>2, <1>3, <1>4, <1>5

\* Lyrics go beside the track they are named after, under their extension.
LEMMA LyricsPlace ==
  ASSUME NEW plan, PlanForm(plan), ValidPlan(plan), NEW paths \in SUBSET Paths,
         NEW f \in LyricsFiles(plan, paths)
  PROVE  LET t == TrackNamed(plan, f.source.base)
         IN  /\ f = [source |-> f.source,
                     target |-> [Target(plan, t) EXCEPT !.ext = Lower(f.source.ext)]]
             /\ f.source \in Paths /\ f.source \notin {s.path : s \in plan.tracks}
             /\ t \in plan.tracks /\ t.path.base = f.source.base
             /\ f.target.disc = Target(plan, t).disc /\ f.target.number = t.track
             /\ f.target.title = Target(plan, t).title
             /\ f.target.ext = Lower(f.source.ext) /\ Lower(f.source.ext) \in Lyrics
<1>1. PICK p \in paths :
        /\ Lower(p.ext) \in Lyrics /\ p.base \in {t.path.base : t \in plan.tracks}
        /\ p \notin {t.path : t \in plan.tracks}
        /\ f = [source |-> p,
                target |-> [Target(plan, TrackNamed(plan, p.base)) EXCEPT !.ext = Lower(p.ext)]]
  BY DEF LyricsFiles
<1> DEFINE t == TrackNamed(plan, p.base)
<1>2. t \in plan.tracks /\ t.path.base = p.base
  BY <1>1, NamedTrack
<1>3. f.source = p /\ f.target = [Target(plan, t) EXCEPT !.ext = Lower(p.ext)]
  BY <1>1
<1> HIDE DEF t
<1>4. /\ f.target.disc = Target(plan, t).disc /\ f.target.number = t.track
      /\ f.target.title = Target(plan, t).title /\ f.target.ext = Lower(p.ext)
  BY <1>3 DEF Target
<1> QED BY <1>1, <1>2, <1>3, <1>4 DEF t

\* The picture of a cover goes nowhere.
LEMMA PicturePlace ==
  ASSUME NEW plan, NEW paths \in SUBSET Paths, NEW f \in PictureFiles(plan, paths)
  PROVE  /\ f = [source |-> f.source, target |-> NoTarget]
         /\ f.source \in Paths /\ Lower(f.source.ext) \in Pictures
<1>1. PICK p \in paths : Lower(p.ext) \in Pictures /\ f = [source |-> p, target |-> NoTarget]
  BY DEF PictureFiles
<1> QED BY <1>1

LEMMA CoverPlace ==
  ASSUME NEW plan, NEW f \in CoverFiles(plan)
  PROVE  f = [source |-> Cover, target |-> Cover]
BY DEF CoverFiles

\* The kinds are told apart by the source's extension or its form.
LEMMA KindsDiffer ==
  /\ \A e : Lower(e) \in Lyrics => e \notin {"flac", "FLAC"} /\ Lower(e) \notin Pictures /\ Lower(e) # "flac"
  /\ \A e : Lower(e) \in Pictures => e \notin {"flac", "FLAC"}
  /\ Cover \notin Paths /\ FLACPaths \subseteq Paths
  /\ Cover.number = 0 /\ Cover.ext = "jpg" /\ "jpg" \notin Lyrics
<1>1. Cover \notin Paths
  <2>1. "disc" \in DOMAIN Cover
    BY DEF Cover
  <2>2. \A p \in Paths : "disc" \notin DOMAIN p
    BY DEF Paths
  <2> QED BY <2>1, <2>2
<1>2. FLACPaths \subseteq Paths
  BY DEF FLACPaths
<1> QED BY <1>1, <1>2 DEF Lower, Lyrics, Pictures, Cover

\* No entry of the work directory has two places.
LEMMA OnePlace ==
  ASSUME NEW plan, PlanForm(plan), ValidPlan(plan), NEW paths \in SUBSET Paths,
         NEW f \in Manifest(plan, paths), NEW g \in Manifest(plan, paths), f.source = g.source
  PROVE  f = g
<1> DEFINE taken == {t.path : t \in plan.tracks}
<1>1. \A h \in TrackFiles(plan) : /\ h.source \in taken /\ h.source \in Paths
                                  /\ h.source.ext \in {"flac", "FLAC"}
  BY TrackPlace, KindsDiffer DEF FLACPaths
<1>2. \A h \in LyricsFiles(plan, paths) : /\ h.source \notin taken /\ h.source \in Paths
                                          /\ Lower(h.source.ext) \in Lyrics
  BY LyricsPlace
<1>3. \A h \in PictureFiles(plan, paths) : h.source \in Paths /\ Lower(h.source.ext) \in Pictures
  BY PicturePlace
<1>4. \A h \in CoverFiles(plan) : h.source \notin Paths
  BY CoverPlace, KindsDiffer
<1>5. CASE f \in TrackFiles(plan) /\ g \in TrackFiles(plan)
  <2>1. PICK s \in plan.tracks : f = [source |-> s.path, target |-> Target(plan, s)]
    BY <1>5, TrackPlace
  <2>2. PICK t \in plan.tracks : g = [source |-> t.path, target |-> Target(plan, t)]
    BY <1>5, TrackPlace
  <2>3. s.path = t.path
    BY <2>1, <2>2
  <2>4. s = t
    BY <2>3 DEF ValidPlan
  <2> QED BY <2>1, <2>2, <2>4
<1>6. CASE f \in LyricsFiles(plan, paths) /\ g \in LyricsFiles(plan, paths)
  <2> DEFINE place(p) == [Target(plan, TrackNamed(plan, p.base)) EXCEPT !.ext = Lower(p.ext)]
  <2>1. f = [source |-> f.source, target |-> place(f.source)]
    BY <1>6, LyricsPlace
  <2>2. g = [source |-> g.source, target |-> place(g.source)]
    BY <1>6, LyricsPlace
  <2> HIDE DEF place
  <2> QED BY <2>1, <2>2
<1>7. CASE f \in PictureFiles(plan, paths) /\ g \in PictureFiles(plan, paths)
  <2>1. f = [source |-> f.source, target |-> NoTarget]
    BY <1>7, PicturePlace
  <2>2. g = [source |-> g.source, target |-> NoTarget]
    BY <1>7, PicturePlace
  <2> QED BY <2>1, <2>2
<1>8. CASE f \in CoverFiles(plan) /\ g \in CoverFiles(plan)
  <2>1. f = [source |-> Cover, target |-> Cover] /\ g = [source |-> Cover, target |-> Cover]
    BY <1>8, CoverPlace
  <2> QED BY <2>1
<1> HIDE DEF taken
<1> QED BY <1>1, <1>2, <1>3, <1>4, <1>5, <1>6, <1>7, <1>8, KindsDiffer DEF Manifest

\* Two entries that share a target are lyrics of one track, under extensions
\* that differ in case.
LEMMA SharedPlace ==
  ASSUME NEW plan, PlanForm(plan), ValidPlan(plan), NEW paths \in SUBSET Paths,
         NEW f \in Manifest(plan, paths), NEW g \in Manifest(plan, paths),
         f.target = g.target, f.target # NoTarget, f # g
  PROVE  /\ f.source.base = g.source.base
         /\ f.source.ext # g.source.ext /\ Lower(f.source.ext) = Lower(g.source.ext)
<1>1. f \notin PictureFiles(plan, paths) /\ g \notin PictureFiles(plan, paths)
  <2>1. \A h \in PictureFiles(plan, paths) : h = [source |-> h.source, target |-> NoTarget]
    BY PicturePlace
  <2>2. \A h \in PictureFiles(plan, paths) : h.target = NoTarget
    BY <2>1
  <2> QED BY <2>2
<1>2. \A h \in TrackFiles(plan) : h.target.ext = "flac"
  BY TrackPlace
<1>3. \A h \in LyricsFiles(plan, paths) : h.target.ext \in Lyrics
  BY LyricsPlace
<1>4. \A h \in CoverFiles(plan) : h = [source |-> Cover, target |-> Cover]
  BY CoverPlace
<1>5. \A h \in CoverFiles(plan) : h.target.ext = "jpg"
  BY <1>4 DEF Cover
<1>6. CASE f \in TrackFiles(plan) /\ g \in TrackFiles(plan)
  <2>1. PICK s \in plan.tracks : f = [source |-> s.path, target |-> Target(plan, s)]
    BY <1>6, TrackPlace
  <2>2. PICK t \in plan.tracks : g = [source |-> t.path, target |-> Target(plan, t)]
    BY <1>6, TrackPlace
  <2>3. Target(plan, s) = Target(plan, t)
    BY <2>1, <2>2
  <2>4. s = t
    BY <2>3, NoCollision DEF Collision
  <2> QED BY <2>1, <2>2, <2>4
<1>7. CASE f \in CoverFiles(plan) /\ g \in CoverFiles(plan)
  BY <1>4, <1>7
<1>8. CASE f \in LyricsFiles(plan, paths) /\ g \in LyricsFiles(plan, paths)
  <2> DEFINE s == TrackNamed(plan, f.source.base)
             t == TrackNamed(plan, g.source.base)
  <2>1. /\ f.source \in Paths /\ s \in plan.tracks /\ s.path.base = f.source.base
        /\ f.target.disc = Target(plan, s).disc /\ f.target.number = s.track
        /\ f.target.title = Target(plan, s).title /\ f.target.ext = Lower(f.source.ext)
    BY <1>8, LyricsPlace
  <2>2. /\ g.source \in Paths /\ t \in plan.tracks /\ t.path.base = g.source.base
        /\ g.target.disc = Target(plan, t).disc /\ g.target.number = t.track
        /\ g.target.title = Target(plan, t).title /\ g.target.ext = Lower(g.source.ext)
    BY <1>8, LyricsPlace
  <2> HIDE DEF s, t
  <2>3. Target(plan, s) = Target(plan, t)
    BY <2>1, <2>2 DEF Target
  <2>4. s = t
    BY <2>1, <2>2, <2>3, NoCollision DEF Collision
  <2>5. f.source # g.source
    BY OnePlace
  <2>6. f.source.ext # g.source.ext
    BY <2>1, <2>2, <2>4, <2>5 DEF Paths
  <2> QED BY <2>1, <2>2, <2>4, <2>6
<1>9. "flac" \notin Lyrics /\ "jpg" \notin Lyrics
  BY DEF Lyrics
<1> QED BY <1>1, <1>2, <1>3, <1>5, <1>6, <1>7, <1>8, <1>9 DEF Manifest

\* Whatever was approved and whatever lies in the work directory: a release
\* that BuildUnmanagedLayout and preflightUnmanaged let through has one place
\* for every entry, two entries share a target only as the lyrics of one
\* track under extensions that differ in case, and the layout's own check for
\* colliding tracks never stops a valid plan.
THEOREM PlansAreLaidOut ==
  ASSUME NEW plan, PlanForm(plan), NEW paths \in SUBSET Paths
  PROVE  TargetsDistinctFor(plan, paths)
<1> DEFINE manifest == Manifest(plan, paths)
           placed == {f \in manifest : f.target # NoTarget}
<1>1. ValidPlan(plan) => ~Collision(plan)
  BY NoCollision
<1>2. Layable(plan) => ValidPlan(plan)
  BY DEF Layable
<1>3. ValidPlan(plan) => \A f \in manifest, g \in manifest : f.source = g.source => f = g
  BY OnePlace
<1>4. ValidPlan(plan) =>
        \A f, g \in placed : f.target = g.target /\ f # g =>
          /\ f.source.base = g.source.base
          /\ f.source.ext # g.source.ext /\ Lower(f.source.ext) = Lower(g.source.ext)
  BY SharedPlace
<1> HIDE DEF manifest
<1> QED BY <1>1, <1>2, <1>3, <1>4 DEF TargetsDistinctFor, manifest

-----------------------------------------------------------------------------
\* A CHOOSE from one value is that value, and one value is one.
LEMMA OnlyOne == \A v : Single({v}) /\ Only({v}) = v /\ NameIn({v}) = v /\ PositionIn({v}) = v
<1>1. \A v : Single({v})
  BY FS_Singleton DEF Single
<1>2. \A v : Only({v}) = v
  BY DEF Only
<1> QED BY <1>1, <1>2 DEF NameIn, PositionIn

\* What builds is the claim of exactly the files that were approved: every
\* file is the one of a track, and of one track only.
LEMMA FilesOfTracks ==
  ASSUME NEW plan, PlanForm(plan), ValidPlan(plan), NEW files, FilesForm(files),
         Cardinality(files) = Cardinality(plan.tracks),
         \A t \in plan.tracks : \E f \in files : Confirms(plan, f, t)
  PROVE  /\ \A t \in plan.tracks : \E f \in files : Confirms(plan, f, t)
         /\ \A f \in files : \E t \in plan.tracks : Confirms(plan, f, t)
         /\ \A f \in files, g \in files : f.path = g.path => f = g
<1> DEFINE file == [t \in plan.tracks |-> CHOOSE f \in files : Confirms(plan, f, t)]
<1>1. \A t \in plan.tracks : file[t] \in files /\ Confirms(plan, file[t], t)
  OBVIOUS
<1>2. file \in [plan.tracks -> files]
  BY <1>1
<1> HIDE DEF file
<1>3. file \in Injection(plan.tracks, files)
  <2>1. \A t \in plan.tracks : file[t].path = t.path
    BY <1>1 DEF Confirms
  <2>2. \A s, t \in plan.tracks : s.path = t.path => s = t
    BY DEF ValidPlan
  <2>3. \A s, t \in plan.tracks : file[s] = file[t] => s = t
    BY <2>1, <2>2
  <2> QED BY <1>2, <2>3 DEF Injection, IsInjective
<1>4. file \in Surjection(plan.tracks, files)
  BY <1>3, FS_Injection DEF FilesForm
<1>5. \A f \in files : \E t \in plan.tracks : file[t] = f
  BY <1>4 DEF Surjection
<1>6. ASSUME NEW f \in files, NEW g \in files, f.path = g.path PROVE f = g
  <2>1. PICK s \in plan.tracks : file[s] = f
    BY <1>5
  <2>2. PICK t \in plan.tracks : file[t] = g
    BY <1>5
  <2>3. s.path = t.path
    BY <1>1, <1>6, <2>1, <2>2 DEF Confirms
  <2>4. s = t
    BY <2>3 DEF ValidPlan
  <2> QED BY <2>1, <2>2, <2>4
<1> QED BY <1>1, <1>5, <1>6

\* The highest disc of a valid plan is the number of its discs.
LEMMA HighestDisc ==
  ASSUME NEW plan, PlanForm(plan), ValidPlan(plan)
  PROVE  Highest({1} \union {t.disc : t \in plan.tracks}) = plan.discTotal
<1> DEFINE discs == {1} \union {t.disc : t \in plan.tracks}
<1>1. plan.discTotal \in Nat /\ plan.discTotal > 0
  <2>1. plan.discTotal > 0
    BY DEF ValidPlan
  <2>2. plan.discTotal \in Int
    BY DEF PlanForm
  <2> QED BY <2>1, <2>2
<1>2. plan.discTotal \in discs
  <2>1. \A disc \in 1..plan.discTotal : On(plan, disc) # {}
    BY DEF ValidPlan
  <2>2. On(plan, plan.discTotal) # {}
    BY <1>1, <2>1
  <2> QED BY <2>2 DEF On
<1>3. \A n \in discs : n \in Nat /\ n <= plan.discTotal
  BY <1>1, NumbersBounded
<1> HIDE DEF discs
<1>4. \A n \in discs : (\A m \in discs : m <= n) => n = plan.discTotal
  BY <1>1, <1>2, <1>3
<1>5. Highest(discs) = plan.discTotal
  BY <1>2, <1>3, <1>4 DEF Highest
<1> QED BY <1>5 DEF discs

\* One retagged file: the tags of the track that has its path.
LEMMA RetaggedFile ==
  ASSUME NEW plan, PlanForm(plan), ValidPlan(plan), NEW files, FilesForm(files),
         NEW f \in files, NEW t \in plan.tracks, Confirms(plan, f, t),
         NEW track, track = CHOOSE s \in plan.tracks : s.path = f.path,
         NEW g, g = [f EXCEPT !.tags = TagsOf(plan, track, f.tags)]
  PROVE  /\ g.tags["ALBUM"] = {plan.album} /\ g.tags["ALBUMARTIST"] = {plan.artist}
         /\ TrackOf(g) = t /\ UnchangedTags(plan.preserved[g.path], g.tags)
<1>1. f.path = t.path /\ f.duration = t.duration /\ UnchangedTags(plan.preserved[t.path], f.tags)
  BY DEF Confirms
<1>2. track = t
  BY <1>1 DEF ValidPlan
<1>3. /\ f = [path |-> f.path, duration |-> f.duration, tags |-> f.tags]
      /\ f.tags = [field \in Fields |-> f.tags[field]]
  <2> DEFINE tags == [field \in Fields |-> f.tags[field]]
  <2>1. f = [path |-> f.path, duration |-> f.duration, tags |-> tags]
    BY DEF FilesForm
  <2> HIDE DEF tags
  <2>2. f.tags = tags
    BY <2>1
  <2> QED BY <2>1, <2>2 DEF tags
<1>4. g = [path |-> t.path, duration |-> t.duration, tags |-> TagsOf(plan, t, f.tags)]
  BY <1>1, <1>2, <1>3
<1>5. /\ g.tags["TITLE"] = {t.title} /\ g.tags["ARTIST"] = {t.artist}
      /\ g.tags["TRACKNUMBER"] = {t.track} /\ g.tags["DISCNUMBER"] = {t.disc}
      /\ g.tags["ALBUM"] = {plan.album} /\ g.tags["ALBUMARTIST"] = {plan.artist}
      /\ \A x \in Fields \ UnmanagedTagFields : g.tags[x] = f.tags[x]
  BY SMTT(60), <1>3, <1>4 DEF TagsOf, Fields, UnmanagedTagFields, Named, Numbered
<1>6. g.path = t.path /\ g.duration = t.duration
  BY <1>4
<1>7. t = [path |-> t.path, duration |-> t.duration, title |-> t.title, artist |-> t.artist,
           track |-> t.track, disc |-> t.disc]
  BY DEF PlanForm
<1>8. TrackOf(g) = t
  BY <1>5, <1>6, <1>7, OnlyOne DEF TrackOf
<1>9. UnchangedTags(plan.preserved[g.path], g.tags)
  BY <1>1, <1>5, <1>6 DEF UnchangedTags
<1> QED BY <1>5, <1>8, <1>9

\* Files that all have one value of a field agree on it.
LEMMA AllAgree ==
  ASSUME NEW files, files # {}, NEW field, field # "DATE", NEW value,
         \A f \in files : f.tags[field] = {value}
  PROVE  ConsensusValue(files, field) = value
<1>1. \A f \in files : Single(f.tags[field])
  BY OnlyOne
<1>2. Agreed(files, field) = {value}
  <2>1. {f \in files : Single(f.tags[field])} = files
    BY <1>1
  <2>2. {f.tags[field] : f \in files} = {{value}}
    OBVIOUS
  <2>3. UNION {{value}} = {value}
    OBVIOUS
  <2> QED BY <2>1, <2>2, <2>3 DEF Agreed
<1>3. Consensus(files, field)
  BY <1>1, <1>2, OnlyOne DEF Consensus
<1> QED BY <1>2, <1>3, OnlyOne DEF ConsensusValue

\* Whatever was approved and whatever the claimed files are tagged with: when
\* UnmanagedMetadataService.Build makes a plan of them, the preview of the
\* retagged files is the approved plan, and the tags that the plan does not
\* own are those the operator saw.
THEOREM PlansAreReadBack ==
  ASSUME NEW decision, PlanForm(decision.plan), NEW files, FilesForm(files)
  PROVE  PlanReadBackFor(decision, files)
<1> DEFINE plan == decision.plan
           retagged == Retagged(plan, files)
           reread == PlanFromTags(retagged)
<1> SUFFICES ASSUME Buildable(decision, files)
             PROVE  /\ reread.tracks = plan.tracks /\ reread.artist = plan.artist /\ reread.album = plan.album
                    /\ reread.discTotal = plan.discTotal /\ reread.trackTotal = plan.trackTotal
                    /\ \A f \in retagged : UnchangedTags(plan.preserved[f.path], f.tags)
  BY DEF PlanReadBackFor
<1>1. /\ PlanForm(plan) /\ ValidPlan(plan) /\ Cardinality(files) = Cardinality(plan.tracks)
      /\ \A t \in plan.tracks : \E f \in files : Confirms(plan, f, t)
  BY DEF Buildable
<1> HIDE DEF plan
<1> DEFINE track(f) == CHOOSE t \in plan.tracks : t.path = f.path
           tagged(f) == [f EXCEPT !.tags = TagsOf(plan, track(f), f.tags)]
<1>2. /\ \A t \in plan.tracks : \E f \in files : Confirms(plan, f, t)
      /\ \A f \in files : \E t \in plan.tracks : Confirms(plan, f, t)
  BY <1>1, FilesOfTracks
<1>3. ASSUME NEW f \in files, NEW t \in plan.tracks, Confirms(plan, f, t)
      PROVE
        /\ tagged(f).tags["ALBUM"] = {plan.album} /\ tagged(f).tags["ALBUMARTIST"] = {plan.artist}
        /\ TrackOf(tagged(f)) = t
        /\ UnchangedTags(plan.preserved[tagged(f).path], tagged(f).tags)
  <2>1. track(f) = CHOOSE s \in plan.tracks : s.path = f.path
    OBVIOUS
  <2> HIDE DEF track
  <2>2. tagged(f) = [f EXCEPT !.tags = TagsOf(plan, track(f), f.tags)]
    OBVIOUS
  <2> HIDE DEF tagged
  <2> QED BY ZenonT(60), <1>1, <1>3, <2>1, <2>2, RetaggedFile
<1>4. retagged = {tagged(f) : f \in files}
  BY DEF Retagged
<1> HIDE DEF tagged, retagged
<1>5. \A g \in retagged :
        /\ g.tags["ALBUM"] = {plan.album} /\ g.tags["ALBUMARTIST"] = {plan.artist}
        /\ TrackOf(g) \in plan.tracks /\ UnchangedTags(plan.preserved[g.path], g.tags)
  BY <1>2, <1>3, <1>4
<1>6. {TrackOf(g) : g \in retagged} = plan.tracks
  <2>1. \A t \in plan.tracks : \E g \in retagged : TrackOf(g) = t
    BY <1>2, <1>3, <1>4
  <2> QED BY <1>5, <2>1
<1>7. retagged # {}
  BY <1>1, <1>6 DEF ValidPlan
<1>8. reread.tracks = plan.tracks
  BY <1>6 DEF PlanFromTags
<1>9. reread.artist = plan.artist /\ reread.album = plan.album
  <2>1. ConsensusValue(retagged, "ALBUMARTIST") = plan.artist
    <3>1. \A g \in retagged : g.tags["ALBUMARTIST"] = {plan.artist}
      BY <1>5
    <3> QED BY <1>7, <3>1, AllAgree, "ALBUMARTIST" # "DATE"
  <2>2. ConsensusValue(retagged, "ALBUM") = plan.album
    <3>1. \A g \in retagged : g.tags["ALBUM"] = {plan.album}
      BY <1>5
    <3> QED BY <1>7, <3>1, AllAgree, "ALBUM" # "DATE"
  <2> QED BY <2>1, <2>2 DEF PlanFromTags
<1>10. reread.discTotal = plan.discTotal
  BY <1>1, <1>6, HighestDisc DEF PlanFromTags
<1>11. reread.trackTotal = plan.trackTotal
  BY <1>1, <1>6 DEF PlanFromTags, ValidPlan
<1> QED BY <1>5, <1>8, <1>9, <1>10, <1>11

-----------------------------------------------------------------------------
(* The comparison with a release (ReleaseMatch), for every release, every    *)
(* candidate and every policy.  What its loop adds up is proved by induction *)
(* over the number of tracks; an induction is over the set of the numbers    *)
(* that are reached.                                                         *)

\* Products grow with their factors.
LEMMA ProductsGrow ==
  ASSUME NEW x \in Int, NEW y \in Int, NEW z \in Nat, x <= y
  PROVE  x * z <= y * z
OBVIOUS

LEMMA ProductsDistribute ==
  ASSUME NEW x \in Int, NEW y \in Int, NEW z \in Int
  PROVE  (x + y) * z = x * z + y * z /\ (x * y) * z = (x * z) * y /\ (x - y) * z = x * z - y * z
OBVIOUS

LEMMA Divided ==
  ASSUME NEW a \in Nat, NEW b \in Nat \ {0}
  PROVE  /\ a \div b \in Nat /\ a % b \in 0..(b - 1)
         /\ a = (a \div b) * b + (a % b)
OBVIOUS

\* RoundedUp is the least whole that is not below the exact quotient.
LEMMA RoundsUp ==
  ASSUME NEW product \in Nat
  PROVE  /\ RoundedUp(product) \in Nat
         /\ \A d \in Int : d <= RoundedUp(product) - 1 <=> d * Basis < product
<1> DEFINE q == product \div Basis
           r == product % Basis
           c == RoundedUp(product)
<1>1. Basis \in Nat \ {0}
  BY IntAssumption
<1>2. q \in Nat /\ r \in 0..(Basis - 1) /\ product = q * Basis + r
  BY <1>1, Divided
<1>3. c = q + (IF r # 0 THEN 1 ELSE 0)
  BY DEF RoundedUp
<1> HIDE DEF q, r, c
<1>4. c \in Nat /\ (c - 1 = q \/ c = q) /\ (c = q <=> r = 0)
  BY <1>2, <1>3
<1>5. ASSUME NEW d \in Int, d <= c - 1 PROVE d * Basis < product
  <2>1. CASE r = 0
    <3>1. d + 1 <= q
      BY <1>2, <1>4, <1>5, <2>1
    <3>2. (d + 1) * Basis <= q * Basis
      BY <1>1, <1>2, <3>1, ProductsGrow
    <3>3. (d + 1) * Basis = d * Basis + Basis
      BY <1>1, ProductsDistribute
    <3> QED BY <1>1, <1>2, <2>1, <3>2, <3>3
  <2>2. CASE r # 0
    <3>1. d <= q
      BY <1>2, <1>4, <1>5, <2>2
    <3>2. d * Basis <= q * Basis
      BY <1>1, <1>2, <3>1, ProductsGrow
    <3> QED BY <1>1, <1>2, <2>2, <3>2
  <2> QED BY <2>1, <2>2
<1>6. ASSUME NEW d \in Int, ~(d <= c - 1) PROVE ~(d * Basis < product)
  <2>1. c <= d
    BY <1>4, <1>6
  <2>2. c * Basis <= d * Basis
    BY <1>1, <1>4, <2>1, ProductsGrow
  <2>3. product <= c * Basis
    <3>1. CASE r = 0
      BY <1>1, <1>2, <1>4, <3>1
    <3>2. CASE r # 0
      <4>1. c = q + 1
        BY <1>2, <1>4, <3>2
      <4>2. c * Basis = q * Basis + Basis
        BY <1>1, <1>2, <4>1, ProductsDistribute
      <4> QED BY <1>1, <1>2, <4>2
    <3> QED BY <3>1, <3>2
  <2> QED BY <1>1, <1>2, <1>4, <2>2, <2>3
<1> QED BY <1>4, <1>5, <1>6 DEF c

\* The parts of a threshold put together: the whole blocks of the reference
\* and its rest.
LEMMA ThresholdParts ==
  ASSUME NEW reference \in Nat, NEW points \in Nat
  PROVE  LET whole == reference \div Basis
             part == RoundedUp((reference % Basis) * points)
         IN  /\ whole * points \in Nat /\ part \in Nat
             /\ \A d \in Int : d <= whole * points + part - 1 <=> d * Basis < reference * points
<1> DEFINE whole == reference \div Basis
           rest == reference % Basis
           part == RoundedUp(rest * points)
<1>1. Basis \in Nat \ {0}
  BY IntAssumption
<1>2. whole \in Nat /\ rest \in Nat /\ reference = whole * Basis + rest
  BY <1>1, Divided
<1> HIDE DEF whole, rest
<1>3. rest * points \in Nat /\ whole * points \in Nat
  BY <1>2
<1>4. part \in Nat /\ \A d \in Int : d <= part - 1 <=> d * Basis < rest * points
  BY <1>3, RoundsUp
<1> HIDE DEF part
<1>5. reference * points = (whole * points) * Basis + rest * points
  <2>1. (whole * Basis + rest) * points = (whole * Basis) * points + rest * points
    BY <1>1, <1>2, ProductsDistribute
  <2>2. (whole * Basis) * points = (whole * points) * Basis
    BY <1>1, <1>2, ProductsDistribute
  <2> QED BY <1>2, <2>1, <2>2
<1>6. ASSUME NEW d \in Int
      PROVE  d <= whole * points + part - 1 <=> d * Basis < reference * points
  <2> DEFINE a == whole * points
  <2>1. a \in Nat
    BY <1>3
  <2> HIDE DEF a
  <2>2. (d - a) * Basis = d * Basis - a * Basis
    BY <1>1, <2>1, ProductsDistribute
  <2>3. d - a <= part - 1 <=> (d - a) * Basis < rest * points
    BY <1>4, <2>1
  <2>4. reference * points = a * Basis + rest * points
    BY <1>5 DEF a
  <2>5. d * Basis \in Int /\ a * Basis \in Int
    BY <1>1, <2>1
  <2>6. (d - a) * Basis < rest * points <=> d * Basis < reference * points
    BY <1>3, <2>2, <2>4, <2>5
  <2>7. d - a <= part - 1 <=> d <= a + part - 1
    BY <1>4, <2>1
  <2> QED BY <2>3, <2>6, <2>7 DEF a
<1> QED BY <1>3, <1>4, <1>6 DEF whole, rest, part

\* What thresholdMS computes in blocks is what the policy states in exact
\* arithmetic, when it does not refuse to compute.
LEMMA ThresholdExact ==
  ASSUME NEW reference \in Nat, NEW observed \in Nat, NEW limit \in Limits,
         Threshold(reference, limit) # Overflow
  PROVE  Difference(reference, observed) <= Threshold(reference, limit)
           <=> Within(reference, observed, limit)
<1> DEFINE whole == reference \div Basis
           part == RoundedUp((reference % Basis) * limit.points)
           share == whole * limit.points
           d == Difference(reference, observed)
<1>1. limit.points \in Nat /\ limit.floor \in Nat
  BY IntAssumption DEF Limits
<1>2. share \in Nat /\ part \in Nat
      /\ (d - 1 \in Int => (d - 1 <= share + part - 1 <=> (d - 1) * Basis < reference * limit.points))
  BY <1>1, ThresholdParts
<1>3. Threshold(reference, limit) = Larger(share + part, limit.floor)
  BY DEF Threshold
<1>4. d \in Nat
  BY DEF Difference
<1> HIDE DEF d, share, part
<1>5. d - 1 <= share + part - 1 <=> d <= share + part
  BY <1>2, <1>4
<1>6. d <= Larger(share + part, limit.floor) <=> d <= share + part \/ d <= limit.floor
  BY <1>1, <1>2, <1>4 DEF Larger
<1> QED BY <1>2, <1>3, <1>4, <1>5, <1>6 DEF Within, d

\* The verdict on one length is the policy's.
LEMMA EvaluatesAsStated ==
  ASSUME NEW reference \in Nat \union {NoDuration}, NEW observed \in Nat,
         NEW auto \in Limits, NEW manual \in Limits
  PROVE  EvaluateDuration(reference, observed, auto, manual)
           \in {"ERROR", Verdict(reference, observed, auto, manual)}
<1>1. CASE reference <= 0
  BY <1>1 DEF EvaluateDuration, Verdict
<1>2. CASE ~(reference <= 0)
  <2>1. reference \in Nat
    BY <1>2 DEF NoDuration
  <2>2. CASE Overflow \in {Threshold(reference, auto), Threshold(reference, manual)}
    BY <1>2, <2>2 DEF EvaluateDuration
  <2>3. CASE Overflow \notin {Threshold(reference, auto), Threshold(reference, manual)}
    <3>1. Difference(reference, observed) <= Threshold(reference, auto)
            <=> Within(reference, observed, auto)
      BY <2>1, <2>3, ThresholdExact
    <3>2. Difference(reference, observed) <= Threshold(reference, manual)
            <=> Within(reference, observed, manual)
      BY <2>1, <2>3, ThresholdExact
    <3> QED BY <1>2, <2>3, <3>1, <3>2 DEF EvaluateDuration, Verdict
  <2> QED BY <2>2, <2>3
<1> QED BY <1>1, <1>2

\* A product that is at most a number leaves its factor at most the quotient.
LEMMA FactorBounded ==
  ASSUME NEW x \in Nat, NEW y \in Nat, NEW z \in Nat \ {0}, x * z <= y
  PROVE  x <= y \div z
<1> DEFINE q == y \div z
           r == y % z
<1>1. q \in Nat /\ r \in 0..(z - 1) /\ y = q * z + r
  BY Divided
<1> HIDE DEF q, r
<1>2. ASSUME q + 1 <= x PROVE FALSE
  <2>1. (q + 1) * z <= x * z
    BY <1>1, <1>2, ProductsGrow
  <2>2. (q + 1) * z = q * z + z
    BY <1>1, ProductsDistribute
  <2> QED BY <1>1, <2>1, <2>2
<1> QED BY <1>1, <1>2 DEF q

LEMMA ProductsCancel ==
  ASSUME NEW x \in Int, NEW y \in Int, NEW z \in Nat, x * z < y * z
  PROVE  x < y
<1>1. y <= x => y * z <= x * z
  BY ProductsGrow
<1> QED BY <1>1

\* thresholdMS computes when the share fits an integer.
LEMMA ThresholdFits ==
  ASSUME NEW reference \in Nat, NEW limit \in Limits,
         Basis * limit.points <= MaxInt, reference * limit.points <= MaxInt * Basis
  PROVE  Threshold(reference, limit) # Overflow
<1> DEFINE points == limit.points
           whole == reference \div Basis
           rest == reference % Basis
           part == RoundedUp(rest * points)
<1>1. points \in Nat \ {0} /\ limit.floor \in Nat /\ MaxInt \in Nat /\ Basis \in Nat \ {0}
  BY IntAssumption DEF Limits
<1>2. whole \in Nat /\ rest \in 0..(Basis - 1)
  BY <1>1, Divided
<1>3. /\ whole * points \in Nat /\ part \in Nat
      /\ \A d \in Int : d <= whole * points + part - 1 <=> d * Basis < reference * points
  BY <1>1, ThresholdParts
<1>4. Threshold(reference, limit) =
        IF \/ whole > MaxInt \div points
           \/ rest # 0 /\ points > MaxInt \div rest
           \/ whole * points > MaxInt - part
          THEN Overflow ELSE Larger(whole * points + part, limit.floor)
  BY DEF Threshold
<1> HIDE DEF points, whole, rest, part
<1>5. whole * points + part <= MaxInt
  <2> DEFINE d == whole * points + part - 1
  <2>1. d \in Int
    BY <1>3
  <2>2. d * Basis < reference * points
    BY <1>3, <2>1
  <2>3. reference * points <= MaxInt * Basis
    BY DEF points
  <2> HIDE DEF d
  <2>4. d * Basis \in Int /\ reference * points \in Int /\ MaxInt * Basis \in Int
    BY <1>1, <2>1
  <2>5. d < MaxInt
    BY <1>1, <2>1, <2>2, <2>3, <2>4, ProductsCancel
  <2> QED BY <1>1, <1>3, <2>5 DEF d
<1>6. whole <= MaxInt \div points
  <2>1. whole * points <= MaxInt
    BY <1>1, <1>3, <1>5
  <2> QED BY <1>1, <1>2, <2>1, FactorBounded
<1>7. ASSUME rest # 0 PROVE points <= MaxInt \div rest
  <2>1. rest \in Nat \ {0} /\ rest <= Basis
    BY <1>1, <1>2, <1>7
  <2>2. rest * points <= Basis * points
    BY <1>1, <2>1, ProductsGrow
  <2>3. points * rest = rest * points /\ points * rest \in Nat /\ Basis * points \in Nat
    BY <1>1, <2>1
  <2>4. points * rest <= MaxInt
    BY <1>1, <2>2, <2>3 DEF points
  <2> QED BY <1>1, <2>1, <2>4, FactorBounded
<1>8. /\ MaxInt \div points \in Int
      /\ rest # 0 => MaxInt \div rest \in Int
  <2>1. MaxInt \div points \in Int
    BY <1>1, Divided
  <2>2. ASSUME rest # 0 PROVE MaxInt \div rest \in Int
    <3>1. rest \in Nat \ {0}
      BY <1>1, <1>2, <2>2
    <3>2. MaxInt \div rest \in Nat
      BY <1>1, <3>1, Divided
    <3> QED BY <3>2
  <2> QED BY <2>1, <2>2
<1>9. Threshold(reference, limit) = Larger(whole * points + part, limit.floor)
  BY <1>1, <1>2, <1>3, <1>4, <1>5, <1>6, <1>7, <1>8
<1> QED BY <1>1, <1>3, <1>9 DEF Larger, Overflow

\* A length is given a verdict when its share of the laxer limit fits.
LEMMA EvaluateFits ==
  ASSUME NEW reference \in Nat \union {NoDuration}, NEW observed \in Nat,
         NEW auto \in Limits, NEW manual \in Limits, auto.points <= manual.points,
         Basis * manual.points <= MaxInt,
         reference # NoDuration => reference * manual.points <= MaxInt * Basis
  PROVE  EvaluateDuration(reference, observed, auto, manual) # "ERROR"
<1>1. CASE reference <= 0
  BY <1>1 DEF EvaluateDuration
<1>2. CASE ~(reference <= 0)
  <2>1. reference \in Nat /\ reference # NoDuration
    BY <1>2 DEF NoDuration
  <2>2. auto.points \in Nat /\ manual.points \in Nat /\ Basis \in Nat /\ MaxInt \in Nat
    BY IntAssumption DEF Limits
  <2>3. Threshold(reference, manual) # Overflow
    BY <2>1, ThresholdFits
  <2>4. auto.points * Basis <= manual.points * Basis
    BY <2>2, ProductsGrow
  <2>5. auto.points * reference <= manual.points * reference
    BY <2>1, <2>2, ProductsGrow
  <2>6. Basis * auto.points <= MaxInt
    BY <2>2, <2>4
  <2>7. reference * auto.points <= MaxInt * Basis
    BY <2>1, <2>2, <2>5
  <2>8. Threshold(reference, auto) # Overflow
    BY <2>1, <2>6, <2>7, ThresholdFits
  <2> QED BY <1>2, <2>3, <2>8 DEF EvaluateDuration
<1> QED BY <1>1, <1>2

-----------------------------------------------------------------------------
\* Induction up to a number, over a set instead of a predicate.
LEMMA StepByStep ==
  ASSUME NEW last \in Nat, NEW reached, 0 \in reached,
         \A n \in 1..last : n - 1 \in reached => n \in reached
  PROVE  \A n \in 0..last : n \in reached
<1> DEFINE missed == {n \in 0..last : n \notin reached}
<1> SUFFICES ASSUME missed # {} PROVE FALSE
  OBVIOUS
<1>1. PICK n \in missed : \A m \in missed : n <= m
  <2>1. missed \subseteq Nat
    OBVIOUS
  <2> HIDE DEF missed
  <2> QED BY <2>1, LeastNumber
<1>2. n \in 1..last /\ n - 1 \in 0..last
  BY <1>1
<1>3. n - 1 \in reached
  BY <1>1, <1>2
<1> QED BY <1>1, <1>2, <1>3

\* A function defined by its start and its steps exists.
Stepping(following, values, last) == following \in [values \X (1..last) -> values]
IsDefined(start, following, values, last) ==
  \E f \in [0..last -> values] :
    f[0] = start /\ \A n \in 1..last : f[n] = following[<<f[n - 1], n>>]
LEMMA StepsDefine ==
  ASSUME NEW last \in Nat, NEW values, NEW start \in values,
         NEW following, Stepping(following, values, last)
  PROVE  IsDefined(start, following, values, last)
<1> USE DEF Stepping
<1> DEFINE reached == {m \in 0..last : \E f \in [0..m -> values] :
                         f[0] = start /\ \A n \in 1..m : f[n] = following[<<f[n - 1], n>>]}
<1>1. 0 \in reached
  <2> DEFINE f == [n \in 0..0 |-> start]
  <2>1. f \in [0..0 -> values] /\ f[0] = start
    OBVIOUS
  <2>2. \A n \in 1..0 : f[n] = following[<<f[n - 1], n>>]
    <3>1. \A n \in 1..0 : FALSE
      OBVIOUS
    <3> QED BY <3>1
  <2> HIDE DEF f
  <2> QED BY <2>1, <2>2
<1>2. ASSUME NEW m \in 1..last, m - 1 \in reached PROVE m \in reached
  <2>1. PICK f \in [0..(m - 1) -> values] :
          f[0] = start /\ \A n \in 1..(m - 1) : f[n] = following[<<f[n - 1], n>>]
    BY <1>2
  <2> DEFINE g == [n \in 0..m |-> IF n = m THEN following[<<f[m - 1], m>>] ELSE f[n]]
  <2>2. g \in [0..m -> values]
    <3>1. f[m - 1] \in values
      BY <1>2
    <3>2. following[<<f[m - 1], m>>] \in values
      BY <3>1
    <3>3. \A n \in 0..m : n # m => f[n] \in values
      OBVIOUS
    <3> QED BY <3>2, <3>3
  <2>3. g[0] = start
    BY <2>1
  <2>4. ASSUME NEW n \in 1..m PROVE g[n] = following[<<g[n - 1], n>>]
    <3>1. n - 1 \in 0..m /\ n - 1 # m /\ g[n - 1] = f[n - 1]
      OBVIOUS
    <3>2. CASE n = m
      BY <3>1, <3>2
    <3>3. CASE n # m
      <4>1. n \in 1..(m - 1) /\ g[n] = f[n]
        BY <3>3
      <4> QED BY <2>1, <3>1, <4>1
    <3> QED BY <3>2, <3>3
  <2> HIDE DEF g
  <2> QED BY <2>2, <2>3, <2>4
<1> HIDE DEF reached
<1>3. last \in reached
  BY <1>1, <1>2, StepByStep
<1> QED BY <1>3 DEF reached, IsDefined

-----------------------------------------------------------------------------
\* The partial sums of natural numbers.
LEMMA SumsAre ==
  ASSUME NEW numbers \in Seq(Nat)
  PROVE  /\ Sums(numbers) \in [0..Len(numbers) -> Nat] /\ Sums(numbers)[0] = 0
         /\ \A n \in 1..Len(numbers) : Sums(numbers)[n] = Sums(numbers)[n - 1] + numbers[n]
<1> DEFINE last == Len(numbers)
           following == [vn \in Nat \X (1..last) |-> vn[1] + numbers[vn[2]]]
           Is(f) == f = [n \in 0..last |-> IF n = 0 THEN 0 ELSE f[n - 1] + numbers[n]]
<1>1. last \in Nat /\ \A n \in 1..last : numbers[n] \in Nat
  OBVIOUS
<1>2. following \in [Nat \X (1..last) -> Nat]
  BY <1>1
<1>3. \A v \in Nat, n \in 1..last : following[<<v, n>>] = v + numbers[n]
  OBVIOUS
<1> HIDE DEF last, following
<1>4. PICK f \in [0..last -> Nat] :
        f[0] = 0 /\ \A n \in 1..last : f[n] = following[<<f[n - 1], n>>]
  <2>1. 0 \in Nat /\ last \in Nat /\ Stepping(following, Nat, last)
    BY <1>1, <1>2 DEF Stepping
  <2>2. IsDefined(0, following, Nat, last)
    BY <2>1, StepsDefine, Zenon
  <2> QED BY <2>2 DEF IsDefined
<1>5. Is(f)
  <2>1. \A n \in 0..last : n # 0 => n \in 1..last /\ f[n - 1] \in Nat
    BY <1>1, <1>4
  <2>2. \A n \in 0..last : f[n] = IF n = 0 THEN 0 ELSE f[n - 1] + numbers[n]
    BY <1>3, <1>4, <2>1
  <2> QED BY <1>4, <2>2
<1>6. Sums(numbers) = CHOOSE g : Is(g)
  BY Zenon DEF Sums, last
<1>7. Is(Sums(numbers))
  BY <1>5, <1>6, Zenon
<1> DEFINE g == Sums(numbers)
<1> HIDE DEF g
<1>8. \A n \in 0..last : g[n] = IF n = 0 THEN 0 ELSE g[n - 1] + numbers[n]
  BY <1>7 DEF g
<1>9. g[0] = 0 /\ \A n \in 1..last : g[n] = g[n - 1] + numbers[n]
  BY <1>1, <1>8
<1>10. \A n \in 0..last : g[n] \in Nat
  <2> DEFINE reached == {n \in 0..last : g[n] \in Nat}
  <2>1. 0 \in reached
    BY <1>1, <1>9
  <2>2. ASSUME NEW n \in 1..last, n - 1 \in reached PROVE n \in reached
    <3>1. g[n] = g[n - 1] + numbers[n] /\ g[n - 1] \in Nat /\ numbers[n] \in Nat
      BY <1>1, <1>9, <2>2
    <3>2. n \in 0..last
      BY <1>1
    <3> QED BY <3>1, <3>2
  <2> HIDE DEF reached
  <2>3. \A n \in 0..last : n \in reached
    BY <1>1, <2>1, <2>2, StepByStep
  <2> QED BY <2>3 DEF reached
<1>11. g \in [0..last -> Nat]
  BY <1>7, <1>10 DEF g
<1> QED BY <1>9, <1>11 DEF g, last

\* Where no number is larger, no partial sum is.
LEMMA SumsGrow ==
  ASSUME NEW f \in Seq(Nat), NEW g \in Seq(Nat), Len(f) = Len(g),
         \A n \in 1..Len(f) : f[n] <= g[n]
  PROVE  Sum(f) <= Sum(g)
<1> DEFINE last == Len(f)
           reached == {n \in 0..last : Sums(f)[n] <= Sums(g)[n]}
<1>1. last \in Nat /\ \A n \in 1..last : f[n] \in Nat /\ g[n] \in Nat /\ f[n] <= g[n]
  OBVIOUS
<1>2. /\ \A n \in 0..last : Sums(f)[n] \in Nat /\ Sums(g)[n] \in Nat
      /\ Sums(f)[0] = 0 /\ Sums(g)[0] = 0
      /\ \A n \in 1..last : Sums(f)[n] = Sums(f)[n - 1] + f[n] /\ Sums(g)[n] = Sums(g)[n - 1] + g[n]
  BY SumsAre
<1> HIDE DEF last
<1>3. 0 \in reached
  BY <1>1, <1>2
<1>4. ASSUME NEW n \in 1..last, n - 1 \in reached PROVE n \in reached
  <2>1. n \in 0..last /\ n - 1 \in 0..last
    BY <1>1
  <2>2. Sums(f)[n - 1] <= Sums(g)[n - 1]
    BY <1>4
  <2>3. /\ Sums(f)[n] = Sums(f)[n - 1] + f[n] /\ Sums(g)[n] = Sums(g)[n - 1] + g[n]
        /\ Sums(f)[n - 1] \in Nat /\ Sums(g)[n - 1] \in Nat
        /\ f[n] \in Nat /\ g[n] \in Nat /\ f[n] <= g[n]
    BY <1>1, <1>2, <2>1
  <2>4. Sums(f)[n] <= Sums(g)[n]
    BY SMTT(60), <2>2, <2>3
  <2> QED BY <2>1, <2>4
<1> HIDE DEF reached
<1>5. last \in reached
  <2>1. last \in Nat
    BY <1>1
  <2>2. \A i \in 0..last : i \in reached
    BY <1>3, <1>4, <2>1, StepByStep
  <2> QED BY <2>1, <2>2
<1> QED BY <1>5 DEF reached, last, Sum

\* A partial sum is at most the sum, and so is each number.
LEMMA SumsBounded ==
  ASSUME NEW f \in Seq(Nat), NEW n \in 1..Len(f)
  PROVE  Sums(f)[n] <= Sum(f) /\ f[n] <= Sum(f) /\ Sum(f) \in Nat
<1> DEFINE last == Len(f)
           reached == {m \in 0..last : n <= m => Sums(f)[n] <= Sums(f)[m]}
<1>1. last \in Nat /\ n \in 1..last /\ \A m \in 1..last : f[m] \in Nat
  OBVIOUS
<1>2. /\ \A m \in 0..last : Sums(f)[m] \in Nat
      /\ \A m \in 1..last : Sums(f)[m] = Sums(f)[m - 1] + f[m]
  BY SumsAre
<1> HIDE DEF last
<1>3. 0 \in reached
  BY <1>1
<1>4. ASSUME NEW m \in 1..last, m - 1 \in reached PROVE m \in reached
  <2>1. m \in 0..last /\ m - 1 \in 0..last /\ n \in 0..last
    BY <1>1
  <2>2. n <= m - 1 => Sums(f)[n] <= Sums(f)[m - 1]
    BY <1>4
  <2>3. /\ Sums(f)[m] = Sums(f)[m - 1] + f[m] /\ Sums(f)[m - 1] \in Nat
        /\ Sums(f)[m] \in Nat /\ Sums(f)[n] \in Nat /\ f[m] \in Nat
    BY <1>1, <1>2, <2>1
  <2>4. n <= m - 1 => Sums(f)[n] <= Sums(f)[m]
    BY SMTT(60), <2>2, <2>3
  <2>5. n <= m => n = m \/ n <= m - 1
    BY <2>1
  <2>6. n <= m => Sums(f)[n] <= Sums(f)[m]
    BY <2>3, <2>4, <2>5
  <2> QED BY <2>1, <2>6
<1> HIDE DEF reached
<1>5. last \in reached
  <2>1. last \in Nat
    BY <1>1
  <2>2. \A i \in 0..last : i \in reached
    BY <1>3, <1>4, <2>1, StepByStep
  <2> QED BY <2>1, <2>2
<1>6. Sums(f)[n] <= Sums(f)[last]
  BY <1>1, <1>5 DEF reached
<1>7. Sums(f)[n - 1] \in Nat /\ Sums(f)[n] = Sums(f)[n - 1] + f[n] /\ Sums(f)[last] \in Nat
  BY <1>1, <1>2
<1> QED BY <1>1, <1>6, <1>7 DEF Sum, last

\* Raising one number raises the sum by as much.
LEMMA SumRaised ==
  ASSUME NEW f \in Seq(Nat), NEW k \in 1..Len(f), NEW more \in Nat,
         NEW g \in Seq(Nat), Len(g) = Len(f), g[k] = f[k] + more,
         \A n \in 1..Len(f) : n # k => g[n] = f[n]
  PROVE  Sum(g) = Sum(f) + more
<1> DEFINE last == Len(f)
           reached == {n \in 0..last : Sums(g)[n] = Sums(f)[n] + (IF n < k THEN 0 ELSE more)}
<1>1. /\ last \in Nat /\ k \in 1..last
      /\ \A n \in 1..last : f[n] \in Nat /\ g[n] = f[n] + (IF n = k THEN more ELSE 0)
  OBVIOUS
<1>2. /\ \A n \in 0..last : Sums(f)[n] \in Nat /\ Sums(g)[n] \in Nat
      /\ Sums(f)[0] = 0 /\ Sums(g)[0] = 0
      /\ \A n \in 1..last : Sums(f)[n] = Sums(f)[n - 1] + f[n] /\ Sums(g)[n] = Sums(g)[n - 1] + g[n]
  BY SumsAre
<1> HIDE DEF last
<1>3. 0 \in reached
  BY <1>1, <1>2
<1>4. ASSUME NEW n \in 1..last, n - 1 \in reached PROVE n \in reached
  <2>1. n \in 0..last /\ n - 1 \in 0..last
    BY <1>1
  <2>2. Sums(g)[n - 1] = Sums(f)[n - 1] + (IF n - 1 < k THEN 0 ELSE more)
    BY <1>4
  <2>3. /\ Sums(f)[n] = Sums(f)[n - 1] + f[n] /\ Sums(g)[n] = Sums(g)[n - 1] + g[n]
        /\ Sums(f)[n - 1] \in Nat /\ Sums(g)[n - 1] \in Nat
        /\ f[n] \in Nat /\ g[n] = f[n] + (IF n = k THEN more ELSE 0)
    BY <1>1, <1>2, <2>1
  <2>4. n \in Nat /\ k \in Nat
    BY <1>1
  <2>5. Sums(g)[n] = Sums(f)[n] + (IF n < k THEN 0 ELSE more)
    <3>1. CASE n < k
      BY SMTT(60), <2>2, <2>3, <2>4, <3>1
    <3>2. CASE n = k
      BY SMTT(60), <2>2, <2>3, <2>4, <3>2
    <3>3. CASE k < n
      <4>1. ~(n - 1 < k) /\ ~(n < k) /\ n # k
        BY <2>4, <3>3
      <4>2. Sums(g)[n - 1] = Sums(f)[n - 1] + more
        BY <2>2, <4>1
      <4>3. g[n] = f[n]
        BY <2>3, <4>1
      <4>4. Sums(g)[n] = (Sums(f)[n - 1] + more) + f[n]
        BY <2>3, <4>2, <4>3
      <4>5. Sums(g)[n] = (Sums(f)[n - 1] + f[n]) + more
        BY <2>3, <4>4
      <4>6. (IF n < k THEN 0 ELSE more) = more
        BY <4>1
      <4> QED BY <2>3, <4>5, <4>6
    <3> QED BY <2>4, <3>1, <3>2, <3>3
  <2> QED BY <2>1, <2>5
<1> HIDE DEF reached
<1>5. last \in reached
  <2>1. last \in Nat
    BY <1>1
  <2>2. \A i \in 0..last : i \in reached
    BY <1>3, <1>4, <2>1, StepByStep
  <2> QED BY <2>1, <2>2
<1>6. Sums(g)[last] = Sums(f)[last] + more
  BY <1>1, <1>5 DEF reached
<1> QED BY <1>6 DEF last, Sum

-----------------------------------------------------------------------------
\* A function on the numbers up to a length is a sequence.
LEMMA MakesSeq ==
  ASSUME NEW length \in Nat, NEW f \in [1..length -> Nat]
  PROVE  f \in Seq(Nat) /\ Len(f) = length /\ DOMAIN f = 1..Len(f)
<1>1. f \in Seq(Nat)
  BY SeqDef
<1>2. DOMAIN f = 1..length
  OBVIOUS
<1> QED BY <1>1, <1>2, LenProperties

\* The states that the loop of MatchRelease can be in.
Statuses == {"AUTO_APPROVE", "MANUAL_REVIEW", "REJECT", "ERROR"}
Totals == [status : Statuses, observed : Nat, reference : Nat, known : BOOLEAN, seen : SUBSET (Int \X Int)]

LEMMA FormFacts ==
  ASSUME NEW release, NEW candidate, MatchForm(release, candidate)
  PROVE  /\ Len(release) \in Nat /\ DOMAIN release = 1..Len(release)
         /\ Len(candidate) \in Nat /\ DOMAIN candidate = 1..Len(candidate)
         /\ \A i \in 1..Len(release) :
              /\ release[i].at \in Int \X Int
              /\ release[i].duration \in Nat \union {NoDuration}
              /\ release[i].duration # NoDuration => release[i].duration \in Nat
         /\ \A i \in 1..Len(candidate) :
              candidate[i].at \in Int \X Int /\ candidate[i].duration \in Nat
         /\ MaxInt \in Nat
         /\ {TrackAuto, TrackManual, ReleaseAuto, ReleaseManual} \subseteq Limits
<1>1. /\ release \in Seq([at : Int \X Int, duration : 0..MaxInt \union {NoDuration}])
      /\ candidate \in Seq([at : Int \X Int, duration : 0..MaxInt])
  BY DEF MatchForm
<1>2. MaxInt \in Nat /\ {TrackAuto, TrackManual, ReleaseAuto, ReleaseManual} \subseteq Limits
  BY IntAssumption, PolicyAssumption
<1>3. /\ \A i \in 1..Len(release) : release[i] \in [at : Int \X Int, duration : 0..MaxInt \union {NoDuration}]
      /\ \A i \in 1..Len(candidate) : candidate[i] \in [at : Int \X Int, duration : 0..MaxInt]
      /\ Len(release) \in Nat /\ DOMAIN release = 1..Len(release)
      /\ Len(candidate) \in Nat /\ DOMAIN candidate = 1..Len(candidate)
  <2> DEFINE references == [at : Int \X Int, duration : 0..MaxInt \union {NoDuration}]
             tracks == [at : Int \X Int, duration : 0..MaxInt]
  <2>1. release \in Seq(references) /\ candidate \in Seq(tracks)
    BY <1>1
  <2> HIDE DEF references, tracks
  <2>2. /\ Len(release) \in Nat /\ DOMAIN release = 1..Len(release)
        /\ Len(candidate) \in Nat /\ DOMAIN candidate = 1..Len(candidate)
    BY <2>1, LenProperties
  <2>3. /\ \A i \in 1..Len(release) : release[i] \in references
        /\ \A i \in 1..Len(candidate) : candidate[i] \in tracks
    BY <2>1, ElementOfSeq
  <2> QED BY <2>2, <2>3 DEF references, tracks
<1> QED BY <1>2, <1>3 DEF NoDuration

\* The reference of a place of the release.
LEMMA ReferenceIs ==
  ASSUME NEW release, NEW place \in Places(release)
  PROVE  ReferenceAt(release, place) \in DOMAIN release
         /\ release[ReferenceAt(release, place)].at = place
<1>1. \E i \in DOMAIN release : release[i].at = place
  BY DEF Places
<1> QED BY <1>1, Zenon DEF ReferenceAt

\* A track fails the comparison, or its verdict and lengths are added.
LEMMA AddTrackIs ==
  ASSUME NEW release, NEW candidate, MatchForm(release, candidate),
         NEW sofar \in Totals, NEW n \in 1..Len(candidate)
  PROVE  LET track == candidate[n]
             reference == release[ReferenceAt(release, track.at)].duration
             counted == Larger(0, reference)
             verdict == Verdict(reference, track.duration, TrackAuto, TrackManual)
             next == AddTrack(release, sofar, track)
         IN  /\ next \in Totals
             /\ next.status # "ERROR" =>
                  /\ sofar.status # "ERROR" /\ track.at \notin sofar.seen /\ track.at \in Places(release)
                  /\ next.status = Strictest(sofar.status, verdict)
                  /\ next.observed = sofar.observed + track.duration
                  /\ next.reference = sofar.reference + counted
                  /\ next.known <=> sofar.known /\ reference # NoDuration
                  /\ next.seen = sofar.seen \union {track.at}
             /\ /\ sofar.status # "ERROR" /\ track.at \notin sofar.seen /\ track.at \in Places(release)
                /\ EvaluateDuration(reference, track.duration, TrackAuto, TrackManual) # "ERROR"
                /\ sofar.observed + track.duration <= MaxInt
                /\ sofar.reference + counted <= MaxInt
                => next.status # "ERROR"
<1> DEFINE track == candidate[n]
           reference == release[ReferenceAt(release, track.at)].duration
           counted == Larger(0, reference)
           plain == IF reference = NoDuration THEN 0 ELSE reference
           verdict == Verdict(reference, track.duration, TrackAuto, TrackManual)
           status == EvaluateDuration(reference, track.duration, TrackAuto, TrackManual)
           next == AddTrack(release, sofar, track)
           added == [status |-> Strictest(sofar.status, status),
                     observed |-> sofar.observed + track.duration,
                     reference |-> sofar.reference + plain,
                     known |-> sofar.known /\ reference # NoDuration,
                     seen |-> sofar.seen \union {track.at}]
           fails == \/ sofar.status = "ERROR"
                    \/ track.at \in sofar.seen \/ track.at \notin Places(release)
                    \/ status = "ERROR"
                    \/ track.duration > MaxInt - sofar.observed
                    \/ plain > MaxInt - sofar.reference
<1>1. next = IF fails THEN Failed ELSE added
  BY DEF AddTrack
<1>2. /\ track.at \in Int \X Int /\ track.duration \in Nat /\ MaxInt \in Nat
      /\ sofar.observed \in Nat /\ sofar.reference \in Nat /\ sofar.status \in Statuses
      /\ sofar.known \in BOOLEAN /\ sofar.seen \in SUBSET (Int \X Int)
      /\ TrackAuto \in Limits /\ TrackManual \in Limits
  BY FormFacts DEF Totals
<1>3. ASSUME track.at \in Places(release)
      PROVE  reference \in Nat \union {NoDuration} /\ (reference # NoDuration => reference \in Nat)
  BY <1>3, ReferenceIs, FormFacts
<1> HIDE DEF track
<1>4. ASSUME track.at \in Places(release) PROVE plain = counted /\ counted \in Nat
  BY <1>3, <1>4 DEF Larger, NoDuration
<1>5. ASSUME track.at \in Places(release)
      PROVE  status \in {"ERROR", verdict} /\ verdict \in Statuses \ {"ERROR"}
  <2>1. status \in {"ERROR", verdict}
    BY <1>2, <1>3, <1>5, EvaluatesAsStated
  <2>2. verdict \in Statuses \ {"ERROR"}
    BY DEF Verdict, Statuses
  <2> QED BY <2>1, <2>2
<1> HIDE DEF reference, counted, plain, verdict, status, next
<1>6. CASE fails
  <2>1. next = Failed
    BY <1>1, <1>6
  <2>2. Failed \in Totals /\ Failed.status = "ERROR"
    BY DEF Failed, Totals, Statuses
  <2>3. ASSUME /\ sofar.status # "ERROR" /\ track.at \notin sofar.seen /\ track.at \in Places(release)
               /\ status # "ERROR"
               /\ sofar.observed + track.duration <= MaxInt
               /\ sofar.reference + counted <= MaxInt
        PROVE FALSE
    <3>1. plain = counted /\ counted \in Nat
      BY <1>4, <2>3
    <3>2. ~(track.duration > MaxInt - sofar.observed) /\ ~(plain > MaxInt - sofar.reference)
      BY SMTT(60), <1>2, <2>3, <3>1
    <3> QED BY <1>6, <2>3, <3>2
  <2> QED BY <2>1, <2>2, <2>3 DEF next, track, reference, counted, status
<1>7. CASE ~fails
  <2>1. next = added
    BY <1>1, <1>7
  <2>2. plain = counted /\ counted \in Nat /\ status = verdict /\ verdict \in Statuses \ {"ERROR"}
    BY <1>4, <1>5, <1>7
  <2>3. Strictest(sofar.status, status) \in Statuses \ {"ERROR"}
    BY <1>2, <1>7, <2>2 DEF Strictest
  <2>4. added \in Totals
    BY SMTT(60), <1>2, <2>2, <2>3 DEF Totals
  <2>5. /\ next \in Totals /\ next.status # "ERROR"
        /\ sofar.status # "ERROR" /\ track.at \notin sofar.seen /\ track.at \in Places(release)
        /\ next.status = Strictest(sofar.status, verdict)
        /\ next.observed = sofar.observed + track.duration
        /\ next.reference = sofar.reference + counted
        /\ next.known <=> sofar.known /\ reference # NoDuration
        /\ next.seen = sofar.seen \union {track.at}
    BY <1>7, <2>1, <2>2, <2>3, <2>4
  <2> QED BY <2>5 DEF next, track, reference, counted, verdict, status
<1> QED BY <1>6, <1>7

\* The states of the loop.
LEMMA LoopIs ==
  ASSUME NEW release, NEW candidate, MatchForm(release, candidate)
  PROVE  /\ Loop(release, candidate)[0] = Begun
         /\ \A n \in 0..Len(candidate) : Loop(release, candidate)[n] \in Totals
         /\ \A n \in 1..Len(candidate) :
              Loop(release, candidate)[n] = AddTrack(release, Loop(release, candidate)[n - 1], candidate[n])
<1> DEFINE last == Len(candidate)
           following == [vn \in Totals \X (1..last) |-> AddTrack(release, vn[1], candidate[vn[2]])]
           Is(f) == f = [n \in 0..last |-> IF n = 0 THEN Begun ELSE AddTrack(release, f[n - 1], candidate[n])]
<1>1. last \in Nat /\ Begun \in Totals
  BY FormFacts DEF Begun, Totals, Statuses
<1>2. \A v \in Totals, n \in 1..last : AddTrack(release, v, candidate[n]) \in Totals
  BY AddTrackIs
<1>3. following \in [Totals \X (1..last) -> Totals]
  BY <1>2
<1>4. \A v \in Totals, n \in 1..last : following[<<v, n>>] = AddTrack(release, v, candidate[n])
  OBVIOUS
<1> HIDE DEF last, following
<1>5. IsDefined(Begun, following, Totals, last)
  <2>1. Stepping(following, Totals, last)
    BY <1>3 DEF Stepping
  <2> QED BY <1>1, <2>1, StepsDefine, Zenon
<1>6. PICK f \in [0..last -> Totals] :
        f[0] = Begun /\ \A n \in 1..last : f[n] = following[<<f[n - 1], n>>]
  BY <1>5 DEF IsDefined
<1>7. Is(f)
  <2>1. \A n \in 0..last : n # 0 => n \in 1..last /\ f[n - 1] \in Totals
    BY <1>1, <1>6
  <2>2. \A n \in 0..last : f[n] = IF n = 0 THEN Begun ELSE AddTrack(release, f[n - 1], candidate[n])
    BY <1>4, <1>6, <2>1
  <2> QED BY <1>6, <2>2
<1>8. Loop(release, candidate) = CHOOSE g : Is(g)
  BY Zenon DEF Loop, last
<1>9. Is(Loop(release, candidate))
  BY <1>7, <1>8, Zenon
<1> DEFINE g == Loop(release, candidate)
<1> HIDE DEF g
<1>10. \A n \in 0..last : g[n] = IF n = 0 THEN Begun ELSE AddTrack(release, g[n - 1], candidate[n])
  BY <1>9 DEF g
<1>11. g[0] = Begun /\ \A n \in 1..last : g[n] = AddTrack(release, g[n - 1], candidate[n])
  BY <1>1, <1>10
<1> DEFINE reached == {n \in 0..last : g[n] \in Totals}
<1>12. 0 \in reached
  BY <1>1, <1>11
<1>13. ASSUME NEW n \in 1..last, n - 1 \in reached PROVE n \in reached
  <2>1. g[n - 1] \in Totals /\ n \in 0..last
    BY <1>1, <1>13
  <2> QED BY <1>2, <1>11, <2>1
<1> HIDE DEF reached
<1>14. \A n \in 0..last : n \in reached
  BY <1>1, <1>12, <1>13, StepByStep
<1> QED BY <1>11, <1>14 DEF reached, g, last

-----------------------------------------------------------------------------
\* The policy's verdict on a track of the candidate.
TrackVerdict(release, candidate, i) ==
  Verdict(release[ReferenceAt(release, candidate[i].at)].duration, candidate[i].duration,
          TrackAuto, TrackManual)

\* The lengths of the release at the places that were seen.
Counted(release, seen) ==
  [i \in 1..Len(release) |-> IF release[i].at \in seen THEN Larger(0, release[i].duration) ELSE 0]

\* What the loop's state says of the tracks it has seen, unless it failed.
Tallied(release, candidate, n) ==
  LET total == Loop(release, candidate)[n]
  IN  /\ total.seen = {candidate[i].at : i \in 1..n} /\ total.seen \subseteq Places(release)
      /\ \A i, j \in 1..n : candidate[i].at = candidate[j].at => i = j
      /\ total.observed = Sums(Lengths(candidate))[n]
      /\ total.reference = Sum(Counted(release, total.seen))
      /\ total.known <=> \A i \in 1..n :
                           release[ReferenceAt(release, candidate[i].at)].duration # NoDuration
      /\ \/ total.status = "AUTO_APPROVE"
         \/ \E i \in 1..n : total.status = TrackVerdict(release, candidate, i)
      /\ \A i \in 1..n : Rank(TrackVerdict(release, candidate, i)) <= Rank(total.status)

LEMMA LengthsAre ==
  ASSUME NEW release, NEW candidate, MatchForm(release, candidate)
  PROVE  /\ Lengths(candidate) \in Seq(Nat) /\ Len(Lengths(candidate)) = Len(candidate)
         /\ \A i \in 1..Len(candidate) : Lengths(candidate)[i] = candidate[i].duration
         /\ Lengths(release) \in Seq(Nat) /\ Len(Lengths(release)) = Len(release)
         /\ \A i \in 1..Len(release) : Lengths(release)[i] = Larger(0, release[i].duration)
<1>1. \A d \in Nat \union {NoDuration} : Larger(0, d) \in Nat /\ (d \in Nat => Larger(0, d) = d)
  BY DEF Larger, NoDuration
<1>2. Lengths(candidate) \in [1..Len(candidate) -> Nat]
      /\ \A i \in 1..Len(candidate) : Lengths(candidate)[i] = candidate[i].duration
  BY <1>1, FormFacts DEF Lengths
<1>3. Lengths(release) \in [1..Len(release) -> Nat]
      /\ \A i \in 1..Len(release) : Lengths(release)[i] = Larger(0, release[i].duration)
  BY <1>1, FormFacts DEF Lengths
<1>4. Len(release) \in Nat /\ Len(candidate) \in Nat
  BY FormFacts
<1> QED BY <1>2, <1>3, <1>4, MakesSeq

LEMMA CountedIs ==
  ASSUME NEW release, NEW candidate, MatchForm(release, candidate), NEW seen
  PROVE  /\ Counted(release, seen) \in Seq(Nat) /\ Len(Counted(release, seen)) = Len(release)
         /\ Sum(Counted(release, seen)) \in Nat
         /\ Sum(Counted(release, seen)) <= Sum(Lengths(release))
         /\ Places(release) \subseteq seen => Counted(release, seen) = Lengths(release)
<1> DEFINE counted == Counted(release, seen)
           lengths == Lengths(release)
<1>1. Len(release) \in Nat /\ DOMAIN release = 1..Len(release)
  BY FormFacts
<1>2. /\ lengths \in Seq(Nat) /\ Len(lengths) = Len(release)
      /\ \A i \in 1..Len(release) : lengths[i] = Larger(0, release[i].duration) /\ lengths[i] \in Nat
  BY LengthsAre, ElementOfSeq
<1>3. /\ counted \in [1..Len(release) -> Nat]
      /\ \A i \in 1..Len(release) : counted[i] \in {0, lengths[i]}
      /\ \A i \in 1..Len(release) : release[i].at \in seen => counted[i] = lengths[i]
  BY <1>2 DEF Counted
<1> HIDE DEF counted, lengths
<1>4. counted \in Seq(Nat) /\ Len(counted) = Len(release)
  BY <1>1, <1>3, MakesSeq
<1>5. \A i \in 1..Len(counted) : counted[i] <= lengths[i]
  BY <1>2, <1>3, <1>4
<1>6. Sum(counted) <= Sum(lengths)
  BY <1>2, <1>4, <1>5, SumsGrow
<1>7. Sum(counted) \in Nat
  <2>1. Sums(counted) \in [0..Len(counted) -> Nat] /\ Len(counted) \in Nat
    BY <1>1, <1>4, SumsAre
  <2> QED BY <2>1 DEF Sum
<1>8. ASSUME Places(release) \subseteq seen PROVE counted = lengths
  <2>1. \A i \in 1..Len(release) : release[i].at \in seen
    BY <1>1, <1>8 DEF Places
  <2>2. \A i \in 1..Len(release) : counted[i] = lengths[i]
    BY <1>3, <2>1
  <2>3. lengths \in [1..Len(release) -> Nat]
    BY <1>2, LenProperties
  <2> QED BY <1>3, <2>2, <2>3
<1> QED BY <1>4, <1>6, <1>7, <1>8 DEF counted, lengths

\* A place seen for the first time adds its length.
LEMMA CountedMore ==
  ASSUME NEW release, NEW candidate, MatchForm(release, candidate), Comparable(release, candidate),
         NEW seen, NEW place \in Places(release), place \notin seen
  PROVE  Sum(Counted(release, seen \union {place})) =
           Sum(Counted(release, seen)) + Larger(0, release[ReferenceAt(release, place)].duration)
<1> DEFINE k == ReferenceAt(release, place)
           more == Larger(0, release[k].duration)
           f == Counted(release, seen)
           g == Counted(release, seen \union {place})
<1>1. k \in 1..Len(release) /\ release[k].at = place /\ Len(release) \in Nat
  BY ReferenceIs, FormFacts
<1>2. more \in Nat
  <2>1. release[k].duration \in Nat \union {NoDuration}
    BY <1>1, FormFacts
  <2> QED BY <2>1 DEF Larger, NoDuration
<1>3. \A i \in 1..Len(release) : i # k => release[i].at # place
  <2>1. \A i, j \in 1..Len(release) : release[i].at = release[j].at => i = j
    BY FormFacts DEF Comparable, IsInjective
  <2> QED BY <1>1, <2>1
<1>4. /\ f \in Seq(Nat) /\ g \in Seq(Nat) /\ Len(f) = Len(release) /\ Len(g) = Len(release)
  BY CountedIs
<1>5. f[k] = 0 /\ g[k] = more
  BY <1>1 DEF Counted
<1>6. \A i \in 1..Len(release) : i # k => g[i] = f[i]
  BY <1>3 DEF Counted
<1> HIDE DEF k, more, f, g
<1>7. Sum(g) = Sum(f) + more
  BY <1>1, <1>2, <1>4, <1>5, <1>6, SumRaised
<1> QED BY <1>7 DEF k, more, f, g

\* Nothing is tallied at first.
LEMMA TallyStarts ==
  ASSUME NEW release, NEW candidate, MatchForm(release, candidate)
  PROVE  Tallied(release, candidate, 0)
<1> DEFINE f == Counted(release, {})
<1>1. \A i \in 1..0 : FALSE
  OBVIOUS
<1>2. Loop(release, candidate)[0] = Begun
  BY LoopIs
<1>3. Sums(Lengths(candidate))[0] = 0
  BY LengthsAre, SumsAre
<1>4. Sum(f) = 0
  <2> DEFINE last == Len(f)
             reached == {n \in 0..last : Sums(f)[n] = 0}
  <2>1. f \in Seq(Nat) /\ last = Len(release) /\ last \in Nat
    BY CountedIs, FormFacts
  <2>2. \A n \in 1..last : f[n] = 0
    BY <2>1 DEF Counted
  <2> HIDE DEF f
  <2>3. Sums(f)[0] = 0 /\ \A n \in 1..last : Sums(f)[n] = Sums(f)[n - 1] + f[n]
    BY <2>1, SumsAre
  <2> HIDE DEF last
  <2>4. 0 \in reached
    BY <2>1, <2>3
  <2>5. ASSUME NEW n \in 1..last, n - 1 \in reached PROVE n \in reached
    <3>1. Sums(f)[n - 1] = 0 /\ Sums(f)[n] = Sums(f)[n - 1] + f[n] /\ f[n] = 0
      BY <2>2, <2>3, <2>5
    <3>2. Sums(f)[n] = 0 /\ n \in 0..last
      BY <2>1, <3>1
    <3> QED BY <3>2
  <2> HIDE DEF reached
  <2>6. \A n \in 0..last : n \in reached
    BY <2>1, <2>4, <2>5, StepByStep
  <2>7. last \in reached
    BY <2>1, <2>6
  <2> QED BY <2>7 DEF reached, last, Sum
<1>5. {candidate[i].at : i \in 1..0} = {}
  BY <1>1
<1> HIDE DEF f
<1>6. /\ Begun.seen = {} /\ Begun.observed = 0 /\ Begun.reference = 0 /\ Begun.known = TRUE
      /\ Begun.status = "AUTO_APPROVE"
  BY DEF Begun
<1> QED BY <1>1, <1>2, <1>3, <1>4, <1>5, <1>6 DEF Tallied, f

\* The strictest of two verdicts is one of them and not below either.
LEMMA StrictestIs ==
  \A left, right : /\ Strictest(left, right) \in {left, right}
                   /\ Rank(left) <= Rank(Strictest(left, right))
                   /\ Rank(right) <= Rank(Strictest(left, right))
                   /\ Rank(left) \in 0..2
<1>1. \A status : Rank(status) \in 0..2
  <2> SUFFICES ASSUME NEW status PROVE Rank(status) \in 0..2
    OBVIOUS
  <2>1. CASE status = "REJECT"
    BY <2>1 DEF Rank
  <2>2. CASE status = "MANUAL_REVIEW"
    BY <2>2 DEF Rank
  <2>3. CASE status \notin {"REJECT", "MANUAL_REVIEW"}
    BY <2>3 DEF Rank
  <2> QED BY <2>1, <2>2, <2>3
<1> QED BY <1>1 DEF Strictest

\* One more track that does not fail is tallied with the others.
LEMMA TallyStep ==
  ASSUME NEW release, NEW candidate, MatchForm(release, candidate), Comparable(release, candidate),
         NEW n \in 1..Len(candidate), Tallied(release, candidate, n - 1),
         Loop(release, candidate)[n].status # "ERROR"
  PROVE  Tallied(release, candidate, n)
<1> DEFINE track == candidate[n]
           before == Loop(release, candidate)[n - 1]
           after == Loop(release, candidate)[n]
           reference == release[ReferenceAt(release, track.at)].duration
           verdict == TrackVerdict(release, candidate, n)
<1>1. n \in Nat /\ n >= 1 /\ Len(candidate) \in Nat /\ n - 1 \in 0..Len(candidate)
  BY FormFacts
<1>2. before \in Totals /\ after = AddTrack(release, before, track)
  BY <1>1, LoopIs
<1>3. /\ track.at \notin before.seen /\ track.at \in Places(release)
      /\ after.status = Strictest(before.status, verdict)
      /\ after.observed = before.observed + track.duration
      /\ after.reference = before.reference + Larger(0, reference)
      /\ after.known <=> before.known /\ reference # NoDuration
      /\ after.seen = before.seen \union {track.at}
  BY <1>2, AddTrackIs DEF TrackVerdict
<1>4. /\ before.seen = {candidate[i].at : i \in 1..(n - 1)} /\ before.seen \subseteq Places(release)
      /\ \A i, j \in 1..(n - 1) : candidate[i].at = candidate[j].at => i = j
      /\ before.observed = Sums(Lengths(candidate))[n - 1]
      /\ before.reference = Sum(Counted(release, before.seen))
      /\ before.known <=> \A i \in 1..(n - 1) :
                            release[ReferenceAt(release, candidate[i].at)].duration # NoDuration
      /\ \/ before.status = "AUTO_APPROVE"
         \/ \E i \in 1..(n - 1) : before.status = TrackVerdict(release, candidate, i)
      /\ \A i \in 1..(n - 1) : Rank(TrackVerdict(release, candidate, i)) <= Rank(before.status)
  BY DEF Tallied
<1>5. \A i \in 1..n : i = n \/ i \in 1..(n - 1)
  BY <1>1
<1>6. (1..(n - 1)) \subseteq 1..n /\ n \in 1..n
  BY <1>1
<1> HIDE DEF before, after
<1>7. after.seen = {candidate[i].at : i \in 1..n} /\ after.seen \subseteq Places(release)
  BY <1>3, <1>4, <1>5, <1>6
<1>8. \A i, j \in 1..n : candidate[i].at = candidate[j].at => i = j
  BY <1>3, <1>4, <1>5
<1>9. after.observed = Sums(Lengths(candidate))[n]
  <2>1. Sums(Lengths(candidate))[n] = Sums(Lengths(candidate))[n - 1] + Lengths(candidate)[n]
    BY LengthsAre, SumsAre
  <2>2. Lengths(candidate)[n] = track.duration
    BY LengthsAre
  <2> QED BY <1>3, <1>4, <2>1, <2>2
<1>10. after.reference = Sum(Counted(release, after.seen))
  <2>1. Sum(Counted(release, before.seen \union {track.at})) =
          Sum(Counted(release, before.seen)) + Larger(0, release[ReferenceAt(release, track.at)].duration)
    <3>1. track.at \in Places(release) /\ track.at \notin before.seen
      BY <1>3
    <3> HIDE DEF track
    <3> QED BY <3>1, CountedMore
  <2> HIDE DEF track
  <2> QED BY <1>3, <1>4, <2>1
<1>11. after.known <=> \A i \in 1..n :
                         release[ReferenceAt(release, candidate[i].at)].duration # NoDuration
  BY <1>3, <1>4, <1>5, <1>6
<1>12. \/ after.status = "AUTO_APPROVE"
       \/ \E i \in 1..n : after.status = TrackVerdict(release, candidate, i)
  <2>1. after.status \in {before.status, verdict}
    BY <1>3, StrictestIs
  <2> QED BY <1>4, <1>6, <2>1
<1>13. \A i \in 1..n : Rank(TrackVerdict(release, candidate, i)) <= Rank(after.status)
  <2>1. Rank(before.status) <= Rank(after.status) /\ Rank(verdict) <= Rank(after.status)
    BY <1>3, StrictestIs
  <2>2. \A s : Rank(s) \in 0..2
    BY StrictestIs
  <2> SUFFICES ASSUME NEW i \in 1..n PROVE Rank(TrackVerdict(release, candidate, i)) <= Rank(after.status)
    OBVIOUS
  <2>3. CASE i = n
    BY <2>1, <2>3
  <2>4. CASE i \in 1..(n - 1)
    <3>1. Rank(TrackVerdict(release, candidate, i)) <= Rank(before.status)
      BY <1>4, <2>4
    <3> HIDE DEF verdict
    <3> QED BY <2>1, <2>2, <3>1
  <2> QED BY <1>5, <2>3, <2>4
<1> HIDE DEF track, reference, verdict
<1> QED BY <1>7, <1>8, <1>9, <1>10, <1>11, <1>12, <1>13 DEF Tallied, after

\* The loop that fails on no track has tallied them all.
LEMMA LoopTallies ==
  ASSUME NEW release, NEW candidate, MatchForm(release, candidate), Comparable(release, candidate),
         Loop(release, candidate)[Len(candidate)].status # "ERROR"
  PROVE  Tallied(release, candidate, Len(candidate))
<1> DEFINE last == Len(candidate)
           reached == {n \in 0..last : Loop(release, candidate)[n].status # "ERROR" => Tallied(release, candidate, n)}
<1>1. last \in Nat
  BY FormFacts
<1>2. 0 \in reached
  BY <1>1, TallyStarts
<1>3. ASSUME NEW n \in 1..last, n - 1 \in reached PROVE n \in reached
  <2>1. n - 1 \in 0..last /\ n \in 0..last
    BY <1>1
  <2>2. ASSUME Loop(release, candidate)[n].status # "ERROR" PROVE Tallied(release, candidate, n)
    <3>1. Loop(release, candidate)[n - 1] \in Totals
          /\ Loop(release, candidate)[n] = AddTrack(release, Loop(release, candidate)[n - 1], candidate[n])
      BY <2>1, LoopIs
    <3>2. Loop(release, candidate)[n - 1].status # "ERROR"
      BY <2>2, <3>1, AddTrackIs
    <3>3. Tallied(release, candidate, n - 1)
      BY <1>3, <3>2
    <3> QED BY <2>2, <3>3, TallyStep
  <2> QED BY <2>1, <2>2
<1> HIDE DEF reached, last
<1>4. \A n \in 0..last : n \in reached
  BY <1>1, <1>2, <1>3, StepByStep
<1>5. last \in reached
  BY <1>1, <1>4
<1> QED BY <1>5 DEF reached, last

-----------------------------------------------------------------------------
\* As many places as tracks means that no two tracks share one.
LEMMA PlacesCounted ==
  ASSUME NEW tracks, Len(tracks) \in Nat, DOMAIN tracks = 1..Len(tracks)
  PROVE  /\ IsFiniteSet(Places(tracks))
         /\ Cardinality(Places(tracks)) = Len(tracks)
              <=> \A i, j \in 1..Len(tracks) : tracks[i].at = tracks[j].at => i = j
<1> DEFINE last == Len(tracks)
           f == [i \in 1..last |-> tracks[i].at]
<1>1. IsFiniteSet(1..last) /\ Cardinality(1..last) = last
  <2>1. last \in Int /\ 1 \in Int /\ (1 > last => last = 0)
    OBVIOUS
  <2> HIDE DEF last
  <2>2. IsFiniteSet(1..last) /\ Cardinality(1..last) = IF 1 > last THEN 0 ELSE last - 1 + 1
    BY <2>1, FS_Interval
  <2> QED BY <2>1, <2>2
<1>2. f \in Surjection(1..last, Places(tracks))
  BY DEF Surjection, Places
<1>3. f \in Injection(1..last, Places(tracks))
        <=> \A i, j \in 1..last : tracks[i].at = tracks[j].at => i = j
  BY <1>2 DEF Injection, Surjection, IsInjective
<1> HIDE DEF f, last
<1>4. IsFiniteSet(Places(tracks))
      /\ (Cardinality(Places(tracks)) = Cardinality(1..last) <=> f \in Injection(1..last, Places(tracks)))
  BY <1>1, <1>2, FS_Surjection
<1> QED BY <1>1, <1>3, <1>4 DEF last

\* Tracks of different places, as many as the release has, are at its places
\* if and only if they are at no others.
LEMMA SamePlaces ==
  ASSUME NEW release, NEW candidate, MatchForm(release, candidate), Comparable(release, candidate),
         Places(candidate) \subseteq Places(release)
  PROVE  (\A i, j \in 1..Len(candidate) : candidate[i].at = candidate[j].at => i = j)
           <=> Places(candidate) = Places(release)
<1>1. /\ Len(release) \in Nat /\ DOMAIN release = 1..Len(release)
      /\ Len(candidate) \in Nat /\ DOMAIN candidate = 1..Len(candidate)
      /\ Len(release) = Len(candidate)
  BY FormFacts DEF Comparable
<1>2. \A i, j \in 1..Len(release) : release[i].at = release[j].at => i = j
  BY FormFacts DEF Comparable, IsInjective
<1>3. IsFiniteSet(Places(release)) /\ Cardinality(Places(release)) = Len(release)
  BY <1>1, <1>2, PlacesCounted
<1>4. Cardinality(Places(candidate)) = Len(candidate)
        <=> \A i, j \in 1..Len(candidate) : candidate[i].at = candidate[j].at => i = j
  BY <1>1, PlacesCounted
<1>5. Cardinality(Places(release)) = Cardinality(Places(candidate)) => Places(release) = Places(candidate)
  BY <1>3, FS_Subset
<1> QED BY <1>1, <1>3, <1>4, <1>5

\* What a release that was compared has been compared by.
LEMMA MatchReads ==
  ASSUME NEW release, NEW candidate, MatchForm(release, candidate),
         MatchRelease(release, candidate) # "ERROR"
  PROVE  LET total == Loop(release, candidate)[Len(candidate)]
         IN  /\ Comparable(release, candidate) /\ Places(candidate) = Places(release)
             /\ total.status # "ERROR" /\ Whole(total) # "ERROR"
             /\ MatchRelease(release, candidate) = Strictest(total.status, Whole(total))
             /\ Tallied(release, candidate, Len(candidate))
<1> DEFINE total == Loop(release, candidate)[Len(candidate)]
<1>1. Comparable(release, candidate)
  BY DEF MatchRelease
<1>2. Whole(total) # "ERROR" /\ MatchRelease(release, candidate) = Strictest(total.status, Whole(total))
  BY <1>1 DEF MatchRelease
<1>3. total.status # "ERROR"
  BY <1>2 DEF Whole
<1>4. Tallied(release, candidate, Len(candidate))
  BY <1>1, <1>3, LoopTallies
<1>5. /\ total.seen = {candidate[i].at : i \in 1..Len(candidate)} /\ total.seen \subseteq Places(release)
      /\ \A i, j \in 1..Len(candidate) : candidate[i].at = candidate[j].at => i = j
  BY <1>4 DEF Tallied
<1>6. total.seen = Places(candidate)
  BY <1>5, FormFacts DEF Places
<1>7. Places(candidate) = Places(release)
  BY <1>1, <1>5, <1>6, SamePlaces
<1> QED BY <1>1, <1>2, <1>3, <1>4, <1>7

\* The lengths of the whole release are those the loop has added up.
LEMMA WholeIs ==
  ASSUME NEW release, NEW candidate, MatchForm(release, candidate), Comparable(release, candidate),
         Places(candidate) = Places(release), Tallied(release, candidate, Len(candidate))
  PROVE  LET total == Loop(release, candidate)[Len(candidate)]
         IN  /\ total.observed = Sum(Lengths(candidate)) /\ total.observed \in Nat
             /\ total.reference = Sum(Lengths(release)) /\ total.reference \in Nat
             /\ total.known <=> NoDuration \notin {release[i].duration : i \in DOMAIN release}
<1> DEFINE total == Loop(release, candidate)[Len(candidate)]
<1>1. /\ Len(release) \in Nat /\ DOMAIN release = 1..Len(release)
      /\ Len(candidate) \in Nat /\ DOMAIN candidate = 1..Len(candidate)
  BY FormFacts
<1>2. /\ total.seen = {candidate[i].at : i \in 1..Len(candidate)}
      /\ total.observed = Sums(Lengths(candidate))[Len(candidate)]
      /\ total.reference = Sum(Counted(release, total.seen))
      /\ total.known <=> \A i \in 1..Len(candidate) :
                           release[ReferenceAt(release, candidate[i].at)].duration # NoDuration
  BY DEF Tallied
<1>3. total \in Totals
  BY <1>1, LoopIs
<1> HIDE DEF total
<1>4. total.seen = Places(release)
  BY <1>1, <1>2 DEF Places
<1>5. total.reference = Sum(Lengths(release))
  BY <1>2, <1>4, CountedIs
<1>6. total.observed = Sum(Lengths(candidate))
  BY <1>2, LengthsAre DEF Sum
<1>7. total.known <=> NoDuration \notin {release[i].duration : i \in DOMAIN release}
  <2>1. ASSUME NEW i \in 1..Len(candidate),
               release[ReferenceAt(release, candidate[i].at)].duration = NoDuration
        PROVE  NoDuration \in {release[k].duration : k \in DOMAIN release}
    <3>1. candidate[i].at \in Places(release)
      BY <1>1 DEF Places
    <3>2. ReferenceAt(release, candidate[i].at) \in DOMAIN release
      BY <3>1, ReferenceIs
    <3> QED BY <2>1, <3>2
  <2>2. ASSUME NEW k \in DOMAIN release, release[k].duration = NoDuration
        PROVE  \E i \in 1..Len(candidate) :
                 release[ReferenceAt(release, candidate[i].at)].duration = NoDuration
    <3>1. release[k].at \in Places(candidate)
      BY DEF Places
    <3>2. PICK i \in 1..Len(candidate) : candidate[i].at = release[k].at
      BY <1>1, <3>1 DEF Places
    <3>3. ReferenceAt(release, candidate[i].at) \in DOMAIN release
          /\ release[ReferenceAt(release, candidate[i].at)].at = release[k].at
      BY <3>1, <3>2, ReferenceIs
    <3>4. ReferenceAt(release, candidate[i].at) = k
      BY <3>3 DEF Comparable, IsInjective
    <3> QED BY <2>2, <3>4
  <2> QED BY <1>2, <2>1, <2>2
<1> QED BY <1>3, <1>5, <1>6, <1>7 DEF total, Totals

\* The verdict that a compared release is given.
LEMMA MatchGives ==
  ASSUME NEW release, NEW candidate, MatchForm(release, candidate),
         MatchRelease(release, candidate) # "ERROR"
  PROVE  LET status == MatchRelease(release, candidate)
         IN  /\ status \in Verdicts(release, candidate) \union {"AUTO_APPROVE"}
             /\ \A verdict \in Verdicts(release, candidate) : Rank(verdict) <= Rank(status)
<1> DEFINE total == Loop(release, candidate)[Len(candidate)]
           status == MatchRelease(release, candidate)
           tracks == {TrackVerdict(release, candidate, i) : i \in 1..Len(candidate)}
           whole == Verdict(Sum(Lengths(release)), Sum(Lengths(candidate)), ReleaseAuto, ReleaseManual)
           unknown == NoDuration \in {release[i].duration : i \in DOMAIN release}
<1>1. /\ Comparable(release, candidate) /\ Places(candidate) = Places(release)
      /\ total.status # "ERROR" /\ Whole(total) # "ERROR"
      /\ status = Strictest(total.status, Whole(total))
      /\ Tallied(release, candidate, Len(candidate))
  BY MatchReads
<1>2. Verdicts(release, candidate) = tracks \union (IF unknown THEN {} ELSE {whole})
  BY FormFacts DEF Verdicts, TrackVerdict
<1>3. /\ total.status \in tracks \union {"AUTO_APPROVE"}
      /\ \A verdict \in tracks : Rank(verdict) <= Rank(total.status)
  BY <1>1 DEF Tallied
<1>4. Whole(total) = IF unknown THEN total.status ELSE whole
  <2>1. /\ total.observed = Sum(Lengths(candidate)) /\ total.observed \in Nat
        /\ total.reference = Sum(Lengths(release)) /\ total.reference \in Nat
        /\ total.known <=> ~unknown
    BY <1>1, WholeIs
  <2>2. ReleaseAuto \in Limits /\ ReleaseManual \in Limits
    BY FormFacts
  <2>3. EvaluateDuration(total.reference, total.observed, ReleaseAuto, ReleaseManual)
          \in {"ERROR", Verdict(total.reference, total.observed, ReleaseAuto, ReleaseManual)}
    BY <2>1, <2>2, EvaluatesAsStated
  <2> HIDE DEF total, unknown
  <2> QED BY <1>1, <2>1, <2>3 DEF Whole
<1> HIDE DEF total, status, tracks, whole, unknown
<1>5. /\ status \in {total.status, Whole(total)}
      /\ Rank(total.status) <= Rank(status) /\ Rank(Whole(total)) <= Rank(status)
      /\ \A s : Rank(s) \in 0..2
  BY <1>1, StrictestIs
<1>6. status \in Verdicts(release, candidate) \union {"AUTO_APPROVE"}
  BY <1>2, <1>3, <1>4, <1>5
<1>7. ASSUME NEW verdict \in Verdicts(release, candidate) PROVE Rank(verdict) <= Rank(status)
  <2>1. CASE verdict \in tracks
    <3>1. Rank(verdict) <= Rank(total.status)
      BY <1>3, <2>1
    <3> QED BY <1>5, <3>1
  <2>2. CASE ~unknown /\ verdict = whole
    BY <1>4, <1>5, <2>2
  <2> QED BY <1>2, <2>1, <2>2
<1> QED BY <1>6, <1>7 DEF status

\* A release whose numbers fit is compared to the end.
LEMMA LoopPasses ==
  ASSUME NEW release, NEW candidate, MatchForm(release, candidate),
         Paired(release, candidate), Fits(release, candidate)
  PROVE  Loop(release, candidate)[Len(candidate)].status # "ERROR"
<1> DEFINE last == Len(candidate)
           reached == {n \in 0..last : Loop(release, candidate)[n].status # "ERROR"
                                       /\ Tallied(release, candidate, n)}
<1>1. last \in Nat /\ DOMAIN candidate = 1..last
  BY FormFacts
<1>2. Comparable(release, candidate) /\ Places(candidate) = Places(release)
  BY DEF Paired
<1>3. \A i, j \in 1..last : candidate[i].at = candidate[j].at => i = j
  BY <1>2, SamePlaces
<1>4. 0 \in reached
  <2>1. Loop(release, candidate)[0].status # "ERROR"
    BY LoopIs DEF Begun
  <2> QED BY <1>1, <2>1, TallyStarts
<1>5. ASSUME NEW n \in 1..last, n - 1 \in reached PROVE n \in reached
  <2> DEFINE before == Loop(release, candidate)[n - 1]
             after == Loop(release, candidate)[n]
             place == candidate[n].at
             reference == release[ReferenceAt(release, place)].duration
  <2>1. n - 1 \in 0..last /\ n \in 0..last
    BY <1>1
  <2>2. before.status # "ERROR" /\ Tallied(release, candidate, n - 1)
    BY <1>5
  <2>3. before \in Totals /\ after = AddTrack(release, before, candidate[n])
    BY <2>1, LoopIs
  <2>4. /\ before.seen = {candidate[i].at : i \in 1..(n - 1)}
        /\ before.observed = Sums(Lengths(candidate))[n - 1]
        /\ before.reference = Sum(Counted(release, before.seen))
    BY <2>2 DEF Tallied
  <2>5. place \in Places(release)
    BY <1>1, <1>2 DEF Places
  <2>6. place \notin before.seen
    <3>1. \A i \in 1..(n - 1) : i \in 1..last /\ i # n
      BY <1>1
    <3>2. \A i \in 1..(n - 1) : candidate[i].at # place
      BY <1>3, <3>1
    <3> QED BY <2>4, <3>2
  <2>7. before.observed + candidate[n].duration <= MaxInt
    <3> DEFINE f == Lengths(candidate)
    <3>1. f \in Seq(Nat) /\ n \in 1..Len(f) /\ f[n] = candidate[n].duration
      BY LengthsAre
    <3>2. Sum(f) <= MaxInt
      BY DEF Fits
    <3> HIDE DEF f
    <3>3. Sums(f)[n] = Sums(f)[n - 1] + f[n] /\ Sums(f)[n] <= Sum(f)
      BY <3>1, SumsAre, SumsBounded
    <3>4. Sums(f)[n] \in Nat /\ Sum(f) \in Nat /\ MaxInt \in Nat
      <4>1. Sums(f) \in [0..Len(f) -> Nat] /\ n \in 0..Len(f)
        BY <3>1, SumsAre
      <4> QED BY <3>1, <4>1, SumsBounded, FormFacts
    <3>5. before.observed = Sums(f)[n - 1]
      BY <2>4 DEF f
    <3> HIDE DEF before
    <3> QED BY <3>1, <3>2, <3>3, <3>4, <3>5
  <2>8. before.reference + Larger(0, reference) <= MaxInt
    <3> HIDE DEF before, place
    <3>1. Sum(Counted(release, before.seen \union {place})) =
            Sum(Counted(release, before.seen)) + Larger(0, reference)
      BY <1>2, <2>5, <2>6, CountedMore
    <3>2. /\ Sum(Counted(release, before.seen \union {place})) <= Sum(Lengths(release))
          /\ Sum(Counted(release, before.seen \union {place})) \in Nat
      BY CountedIs
    <3>3. Sum(Lengths(release)) <= MaxInt /\ MaxInt \in Nat
      BY FormFacts DEF Fits
    <3>4. Sum(Lengths(release)) \in Nat
      <4>1. Len(release) \in 1..Len(release) /\ Len(release) = Len(Lengths(release))
        BY <1>1, <1>2, FormFacts, LengthsAre DEF Comparable
      <4> QED BY <4>1, LengthsAre, SumsBounded
    <3> HIDE DEF reference
    <3> QED BY <2>4, <3>1, <3>2, <3>3, <3>4
  <2>9. EvaluateDuration(reference, candidate[n].duration, TrackAuto, TrackManual) # "ERROR"
    <3> DEFINE k == ReferenceAt(release, place)
               f == Lengths(release)
    <3>1. k \in 1..Len(release)
      BY <2>5, ReferenceIs, FormFacts
    <3>2. reference \in Nat \union {NoDuration} /\ candidate[n].duration \in Nat
      BY <3>1, FormFacts
    <3>3. f \in Seq(Nat) /\ k \in 1..Len(f) /\ f[k] = Larger(0, reference)
      BY <3>1, LengthsAre
    <3>4. /\ TrackAuto \in Limits /\ TrackManual \in Limits
          /\ TrackAuto.points <= TrackManual.points
      BY PolicyAssumption DEF Below
    <3>5. /\ Basis * TrackManual.points <= MaxInt
          /\ Sum(f) * TrackManual.points <= MaxInt * Basis
      BY DEF Fits
    <3>6. MaxInt \in Nat /\ Basis \in Nat /\ TrackManual.points \in Nat
      BY <3>4, IntAssumption DEF Limits
    <3> HIDE DEF f, k, reference
    <3>7. ASSUME reference # NoDuration PROVE reference * TrackManual.points <= MaxInt * Basis
      <4>1. reference \in Nat /\ f[k] = reference
        BY <3>2, <3>3, <3>7 DEF Larger
      <4>2. f[k] <= Sum(f) /\ Sum(f) \in Nat
        BY <3>3, SumsBounded
      <4>3. reference * TrackManual.points <= Sum(f) * TrackManual.points
        BY <3>6, <4>1, <4>2, ProductsGrow
      <4>4. /\ reference * TrackManual.points \in Nat /\ Sum(f) * TrackManual.points \in Nat
            /\ MaxInt * Basis \in Nat
        BY <3>6, <4>1, <4>2
      <4> QED BY <3>5, <4>3, <4>4
    <3> QED BY <3>2, <3>4, <3>5, <3>7, EvaluateFits
  <2>10. after.status # "ERROR"
    BY SMTT(60), <2>2, <2>3, <2>5, <2>6, <2>7, <2>8, <2>9, AddTrackIs
  <2>11. Tallied(release, candidate, n)
    BY <1>2, <2>2, <2>10, TallyStep
  <2> QED BY <2>1, <2>10, <2>11
<1> HIDE DEF reached
<1>6. \A n \in 0..last : n \in reached
  BY <1>1, <1>4, <1>5, StepByStep
<1>7. last \in reached
  BY <1>1, <1>6
<1> QED BY <1>7 DEF reached

LEMMA MatchAnswers ==
  ASSUME NEW release, NEW candidate, MatchForm(release, candidate),
         Paired(release, candidate), Fits(release, candidate)
  PROVE  MatchRelease(release, candidate) # "ERROR"
<1> DEFINE total == Loop(release, candidate)[Len(candidate)]
<1>1. Comparable(release, candidate) /\ Places(candidate) = Places(release)
  BY DEF Paired
<1>2. total.status # "ERROR"
  BY LoopPasses
<1>3. Tallied(release, candidate, Len(candidate))
  BY <1>1, <1>2, LoopTallies
<1>4. /\ total.observed \in Nat
      /\ total.reference = Sum(Lengths(release)) /\ total.reference \in Nat
  BY <1>1, <1>3, WholeIs
<1>5. /\ ReleaseAuto \in Limits /\ ReleaseManual \in Limits
      /\ ReleaseAuto.points <= ReleaseManual.points
      /\ Basis * ReleaseManual.points <= MaxInt
      /\ total.reference * ReleaseManual.points <= MaxInt * Basis
  BY <1>4, PolicyAssumption DEF Below, Fits
<1> HIDE DEF total
<1>6. EvaluateDuration(total.reference, total.observed, ReleaseAuto, ReleaseManual) # "ERROR"
  BY <1>4, <1>5, EvaluateFits
<1>7. Whole(total) # "ERROR"
  BY <1>2, <1>6 DEF Whole
<1>8. Strictest(total.status, Whole(total)) # "ERROR"
  BY <1>2, <1>7, StrictestIs
<1> QED BY <1>1, <1>7, <1>8 DEF MatchRelease, total

\* Of MatchRelease, for every release, candidate and policy: its verdict, which
\* thresholdMS computes in parts that fit an integer, is the strictest that the
\* policy gives on a track or on the whole, in exact arithmetic; a candidate that
\* does not pair with the release has none, and one that does has one unless its
\* numbers do not fit.
THEOREM MatchIsAsStated ==
  ASSUME NEW release, NEW candidate, MatchForm(release, candidate)
  PROVE  MatchAsStatedFor(release, candidate)
<1>1. ~Paired(release, candidate) => MatchRelease(release, candidate) = "ERROR"
  BY MatchReads DEF Paired
<1>2. Paired(release, candidate) /\ Fits(release, candidate) => MatchRelease(release, candidate) # "ERROR"
  BY MatchAnswers
<1>3. MatchRelease(release, candidate) # "ERROR" =>
        /\ MatchRelease(release, candidate) \in Verdicts(release, candidate) \union {"AUTO_APPROVE"}
        /\ \A verdict \in Verdicts(release, candidate) :
             Rank(verdict) <= Rank(MatchRelease(release, candidate))
  BY MatchGives
<1> QED BY <1>1, <1>2, <1>3 DEF MatchAsStatedFor

-----------------------------------------------------------------------------
(* The search for a release (ReleaseIdentity), for every plan and all answers *)
(* of MusicBrainz.                                                           *)

\* A request's list is finite, and so is what is looked at of it.
LEMMA ListsFinite ==
  ASSUME NEW mb, mb.answer \in [DOMAIN mb.answer -> Seq(STRING)], NEW q \in DOMAIN mb.answer
  PROVE  IsFiniteSet(ListedAll(mb, q)) /\ IsFiniteSet(Listed10(mb, q))
<1> DEFINE list == mb.answer[q]
           all == ListedAll(mb, q)
<1>1. list \in Seq(STRING) /\ DOMAIN list = 1..Len(list) /\ Len(list) \in Nat
  OBVIOUS
<1>2. IsFiniteSet(DOMAIN list)
  BY <1>1, FS_Interval
<1>3. all = {list[i] : i \in DOMAIN list}
  BY DEF ListedAll, ToSet
<1> HIDE DEF list
<1> DEFINE at == [i \in DOMAIN list |-> list[i]]
<1>4. at \in Surjection(DOMAIN list, all)
  BY <1>3 DEF Surjection
<1>5. IsFiniteSet(all)
  BY <1>2, <1>4, FS_Surjection
<1>6. Listed10(mb, q) \in SUBSET all
  BY <1>3 DEF Listed10, list
<1> QED BY <1>5, <1>6, FS_Subset

\* Of finitely many requests of a kind there are finitely many answers.
LEMMA AnswersFinite ==
  ASSUME NEW codes, IsFiniteSet(codes), NEW given, DOMAIN given = codes,
         \A c \in codes : IsFiniteSet(given[c])
  PROVE  IsFiniteSet(UNION {given[c] : c \in codes})
<1> DEFINE image == {given[c] : c \in codes}
           at == [c \in codes |-> given[c]]
<1>1. at \in Surjection(codes, image)
  BY DEF Surjection
<1>2. IsFiniteSet(image)
  BY <1>1, FS_Surjection
<1>3. \A s \in image : IsFiniteSet(s)
  OBVIOUS
<1> HIDE DEF image
<1>4. IsFiniteSet(UNION image)
  BY <1>2, <1>3, FS_UNION
<1> QED BY <1>4 DEF image

\* The release ids that a search finds are finitely many.
LEMMA FoundFinite ==
  ASSUME NEW plan, NEW mb, IdentityForm(plan, mb)
  PROVE  IsFiniteSet(Found(plan, mb))
<1> DEFINE requested == Searches(plan) \union Recordings(plan, mb)
<1>1. /\ IsFiniteSet(plan.tagged) /\ IsFiniteSet(plan.barcodes) /\ IsFiniteSet(plan.isrcs)
      /\ requested \subseteq DOMAIN mb.answer
      /\ mb.answer \in [DOMAIN mb.answer -> Seq(STRING)]
  BY DEF IdentityForm
<1>2. \A q \in requested : IsFiniteSet(ListedAll(mb, q)) /\ IsFiniteSet(Listed10(mb, q))
  BY <1>1, ListsFinite
<1> DEFINE barcodes == {ByBarcode(b) : b \in plan.barcodes}
<1>3. IsFiniteSet(barcodes)
  <2> DEFINE at == [b \in plan.barcodes |-> ByBarcode(b)]
  <2>1. at \in Surjection(plan.barcodes, barcodes)
    BY DEF Surjection
  <2> QED BY <1>1, <2>1, FS_Surjection
<1> DEFINE first == barcodes \union {ByNames}
<1>4. IsFiniteSet(first) /\ first \subseteq requested
  <2>1. IsFiniteSet({ByNames})
    BY FS_Singleton
  <2>2. IsFiniteSet(first)
    BY <1>3, <2>1, FS_Union
  <2> QED BY <2>2 DEF Searches
<1>5. IsFiniteSet(Recordings(plan, mb))
  <2> DEFINE at(c) == {Recording(r) : r \in Listed10(mb, ByISRC(c))}
             given == [c \in plan.isrcs |-> at(c)]
  <2>1. ASSUME NEW c \in plan.isrcs PROVE IsFiniteSet(at(c))
    <3> DEFINE list == Listed10(mb, ByISRC(c))
               to == [r \in list |-> Recording(r)]
    <3>1. IsFiniteSet(list)
      BY <1>2 DEF Searches
    <3>2. to \in Surjection(list, at(c))
      BY DEF Surjection
    <3> QED BY <3>1, <3>2, FS_Surjection
  <2>2. Recordings(plan, mb) = UNION {given[c] : c \in plan.isrcs}
    BY DEF Recordings
  <2> HIDE DEF at
  <2>3. DOMAIN given = plan.isrcs /\ \A c \in plan.isrcs : IsFiniteSet(given[c])
    BY <2>1
  <2> HIDE DEF given
  <2> QED BY <1>1, <2>2, <2>3, AnswersFinite
<1> HIDE DEF requested, first
<1>6. IsFiniteSet(UNION {Listed10(mb, q) : q \in first})
  <2> DEFINE given == [q \in first |-> Listed10(mb, q)]
  <2>1. DOMAIN given = first /\ \A q \in first : given[q] = Listed10(mb, q) /\ IsFiniteSet(given[q])
    BY <1>2, <1>4
  <2> HIDE DEF given
  <2>2. IsFiniteSet(UNION {given[q] : q \in first})
    BY <1>4, <2>1, AnswersFinite
  <2>3. {given[q] : q \in first} = {Listed10(mb, q) : q \in first}
    BY <2>1
  <2> QED BY <2>2, <2>3
<1>7. IsFiniteSet(UNION {ListedAll(mb, q) : q \in Recordings(plan, mb)})
  <2> DEFINE given == [q \in Recordings(plan, mb) |-> ListedAll(mb, q)]
  <2>1. \A q \in Recordings(plan, mb) : given[q] = ListedAll(mb, q) /\ IsFiniteSet(given[q])
    BY <1>2 DEF requested
  <2>2. DOMAIN given = Recordings(plan, mb)
    OBVIOUS
  <2> HIDE DEF given
  <2>3. IsFiniteSet(UNION {given[q] : q \in Recordings(plan, mb)})
    BY <1>5, <2>1, <2>2, AnswersFinite
  <2>4. {given[q] : q \in Recordings(plan, mb)} = {ListedAll(mb, q) : q \in Recordings(plan, mb)}
    BY <2>1
  <2> QED BY <2>3, <2>4
<1> DEFINE direct == UNION {Listed10(mb, q) : q \in first}
           recorded == UNION {ListedAll(mb, q) : q \in Recordings(plan, mb)}
<1> HIDE DEF direct, recorded
<1>8. IsFiniteSet(plan.tagged \union direct)
  BY <1>1, <1>6, FS_Union DEF direct
<1>9. IsFiniteSet((plan.tagged \union direct) \union recorded)
  BY <1>7, <1>8, FS_Union DEF recorded
<1>10. Found(plan, mb) = (plan.tagged \union direct) \union recorded
  BY DEF direct, recorded, first, Found
<1> QED BY <1>9, <1>10

\* Longer lists name whatever the shorter ones named.
LEMMA ListsGrow ==
  ASSUME NEW mb, NEW more, Extends(more, mb), NEW q \in DOMAIN mb.answer,
         mb.answer[q] \in Seq(STRING), more.answer[q] \in Seq(STRING)
  PROVE  Listed10(mb, q) \subseteq Listed10(more, q) /\ ListedAll(mb, q) \subseteq ListedAll(more, q)
<1> DEFINE s == mb.answer[q]
           t == more.answer[q]
<1>1. Len(s) <= Len(t) /\ SubSeq(s, 1, Len(s)) = SubSeq(t, 1, Len(s))
  BY DEF Extends, IsPrefix
<1>2. s \in Seq(STRING) /\ t \in Seq(STRING)
  OBVIOUS
<1> HIDE DEF s, t
<1>3. Len(s) \in Nat /\ Len(t) \in Nat /\ DOMAIN s = 1..Len(s) /\ DOMAIN t = 1..Len(t)
  BY <1>2
<1>4. \A i \in 1..Len(s) : SubSeq(s, 1, Len(s))[i] = s[i] /\ SubSeq(t, 1, Len(s))[i] = t[i]
  BY <1>1, <1>2, <1>3
<1>5. \A i \in DOMAIN s : i \in DOMAIN t /\ s[i] = t[i]
  BY <1>1, <1>3, <1>4
<1> QED BY <1>5 DEF Listed10, ListedAll, ToSet, s, t

\* A search that is answered with longer lists finds no less.
LEMMA SearchGrows ==
  ASSUME NEW plan, NEW mb, NEW more, Extends(more, mb),
         IdentityForm(plan, mb), IdentityForm(plan, more)
  PROVE  Found(plan, mb) \subseteq Found(plan, more)
<1>1. /\ Searches(plan) \subseteq DOMAIN mb.answer /\ Recordings(plan, mb) \subseteq DOMAIN mb.answer
      /\ Searches(plan) \subseteq DOMAIN more.answer /\ Recordings(plan, more) \subseteq DOMAIN more.answer
      /\ mb.answer \in [DOMAIN mb.answer -> Seq(STRING)]
      /\ more.answer \in [DOMAIN more.answer -> Seq(STRING)]
  BY DEF IdentityForm
<1>2. \A q \in Searches(plan) :
        Listed10(mb, q) \subseteq Listed10(more, q) /\ ListedAll(mb, q) \subseteq ListedAll(more, q)
  <2> SUFFICES ASSUME NEW q \in Searches(plan)
               PROVE  Listed10(mb, q) \subseteq Listed10(more, q) /\ ListedAll(mb, q) \subseteq ListedAll(more, q)
    OBVIOUS
  <2>1. q \in DOMAIN mb.answer /\ mb.answer[q] \in Seq(STRING) /\ more.answer[q] \in Seq(STRING)
    BY <1>1
  <2> QED BY <2>1, ListsGrow
<1>3. Recordings(plan, mb) \subseteq Recordings(plan, more)
  <2>1. \A c \in plan.isrcs : Listed10(mb, ByISRC(c)) \subseteq Listed10(more, ByISRC(c))
    BY <1>2 DEF Searches
  <2> QED BY <2>1 DEF Recordings
<1>4. \A q \in Recordings(plan, mb) : ListedAll(mb, q) \subseteq ListedAll(more, q)
  <2> SUFFICES ASSUME NEW q \in Recordings(plan, mb) PROVE ListedAll(mb, q) \subseteq ListedAll(more, q)
    OBVIOUS
  <2>1. q \in DOMAIN mb.answer /\ mb.answer[q] \in Seq(STRING) /\ more.answer[q] \in Seq(STRING)
    BY <1>1, <1>3
  <2> QED BY <2>1, ListsGrow
<1> DEFINE first == {ByBarcode(b) : b \in plan.barcodes} \union {ByNames}
<1>5. \A q \in first : Listed10(mb, q) \subseteq Listed10(more, q)
  BY <1>2 DEF Searches
<1>6. UNION {Listed10(mb, q) : q \in first} \subseteq UNION {Listed10(more, q) : q \in first}
  BY <1>5
<1>7. UNION {ListedAll(mb, q) : q \in Recordings(plan, mb)}
        \subseteq UNION {ListedAll(more, q) : q \in Recordings(plan, more)}
  BY <1>3, <1>4
<1> QED BY <1>6, <1>7 DEF Found

\* What a search that is answered decides, in terms of the candidates.
LEMMA SearchDecides ==
  ASSUME NEW plan, NEW mb, IdentityForm(plan, mb), SearchAnswered(plan, mb)
  PROVE  LET decision == Decide(plan, mb)
             candidates == Candidates(plan, mb)
         IN  /\ decision.releases = candidates
             /\ decision.status = "AMBIGUOUS" \/ Cardinality(plan.tagged) \in {0, 1}
             /\ decision.status = "NO_MATCH" => candidates = {}
             /\ decision.status = "EXACT" => candidates # {}
             /\ candidates # {} => decision.status \in {"EXACT", "AMBIGUOUS"}
<1> DEFINE candidates == Candidates(plan, mb)
           decision == Decide(plan, mb)
<1>1. candidates \in SUBSET Found(plan, mb)
  BY DEF Candidates
<1>2. IsFiniteSet(candidates)
  BY <1>1, FoundFinite, FS_Subset
<1>3. Cardinality(candidates) = 0 <=> candidates = {}
  BY <1>2, FS_EmptySet
<1>4. Cardinality(plan.tagged) \in Nat
  BY FS_CardinalityType DEF IdentityForm
<1>5. decision.releases = candidates /\
      decision.status = IF Cardinality(plan.tagged) > 1 THEN "AMBIGUOUS"
                        ELSE CASE Cardinality(candidates) = 0 -> "NO_MATCH"
                               [] Cardinality(candidates) = 1 -> "EXACT"
                               [] OTHER -> "AMBIGUOUS"
  BY DEF Decide
<1> HIDE DEF candidates, decision
<1>6. decision.status = "AMBIGUOUS" \/ Cardinality(plan.tagged) \in {0, 1}
  BY <1>4, <1>5
<1> DEFINE Told == /\ decision.releases = candidates
                   /\ decision.status = "AMBIGUOUS" \/ Cardinality(plan.tagged) \in {0, 1}
                   /\ decision.status = "NO_MATCH" => candidates = {}
                   /\ decision.status = "EXACT" => candidates # {}
                   /\ candidates # {} => decision.status \in {"EXACT", "AMBIGUOUS"}
<1>7. ASSUME Cardinality(plan.tagged) > 1 PROVE Told
  BY <1>5, <1>6, <1>7
<1>8. ASSUME ~(Cardinality(plan.tagged) > 1) PROVE Told
  <2>1. Cardinality(candidates) = 0 => decision.status = "NO_MATCH"
    BY <1>5, <1>8
  <2>2. Cardinality(candidates) # 0 => decision.status \in {"EXACT", "AMBIGUOUS"}
    BY <1>5, <1>8
  <2> QED BY <1>3, <1>5, <1>6, <2>1, <2>2
<1>9. Told
  BY <1>7, <1>8
<1> QED BY <1>9 DEF candidates, decision

\* Of IdentityService.Decide, for every plan and all answers: a release it names
\* alone is compared with success and carries no other tagged identifier, it is
\* still among the candidates when MusicBrainz lists more, and "none" is only
\* said when every request was answered and no tagged release agrees.
THEOREM IdentityIsAsStated ==
  ASSUME NEW plan, NEW mb, NEW more, IdentityForm(plan, mb), IdentityForm(plan, more)
  PROVE  IdentityAsStatedFor(plan, mb, more)
<1> DEFINE decision == Decide(plan, mb)
           later == Decide(plan, more)
<1>1. decision.status \in {"EXACT", "NO_MATCH"} => SearchAnswered(plan, mb)
  BY DEF Decide, SearchFailed
<1>2. ASSUME decision.status = "EXACT", NEW id \in decision.releases
      PROVE  /\ EvaluateMatch(mb.release[id].tracks, plan.tracks)[1] = "ENRICHING"
             /\ Cardinality(plan.tagged) < 2 /\ plan.tagged \subseteq {id}
             /\ Extends(more, mb) /\ SearchAnswered(plan, more) =>
                  later.status \in {"EXACT", "AMBIGUOUS"} /\ id \in later.releases
  <2>1. /\ decision.releases = Candidates(plan, mb)
        /\ Cardinality(plan.tagged) \in {0, 1}
    BY <1>1, <1>2, SearchDecides
  <2>2. /\ id \in Found(plan, mb) /\ Agrees(plan, mb.release[id])
        /\ Cardinality(plan.tagged) = 1 => id \in plan.tagged
    BY <2>1 DEF Candidates
  <2>3. EvaluateMatch(mb.release[id].tracks, plan.tracks)[1] = "ENRICHING"
    BY <2>2 DEF Agrees, EvaluateMatch
  <2>4. plan.tagged \subseteq {id}
    <3>1. IsFiniteSet(plan.tagged)
      BY DEF IdentityForm
    <3>2. CASE Cardinality(plan.tagged) = 0
      BY <3>1, <3>2, FS_EmptySet
    <3>3. CASE Cardinality(plan.tagged) = 1
      <4>1. PICK x : plan.tagged = {x}
        BY <3>1, <3>3, FS_Singleton
      <4> QED BY <2>2, <3>3, <4>1
    <3> QED BY <2>1, <3>2, <3>3
  <2>5. ASSUME Extends(more, mb), SearchAnswered(plan, more)
        PROVE  later.status \in {"EXACT", "AMBIGUOUS"} /\ id \in later.releases
    <3>1. more.release = mb.release
      BY <2>5 DEF Extends
    <3>2. id \in Found(plan, more)
      BY <2>2, <2>5, SearchGrows
    <3>3. id \in Candidates(plan, more)
      BY <2>2, <3>1, <3>2 DEF Candidates
    <3>4. /\ later.releases = Candidates(plan, more)
          /\ Candidates(plan, more) # {} => later.status \in {"EXACT", "AMBIGUOUS"}
      BY <2>5, SearchDecides
    <3> QED BY <3>3, <3>4
  <2>6. Cardinality(plan.tagged) < 2
    BY <2>1
  <2> QED BY <2>3, <2>4, <2>5, <2>6
<1>3. ASSUME decision.status = "NO_MATCH"
      PROVE  /\ \A q \in Requests(plan, mb) : Answered(mb, q)
             /\ \A id \in plan.tagged : ~Agrees(plan, mb.release[id])
  <2>1. /\ Candidates(plan, mb) = {} /\ Cardinality(plan.tagged) \in {0, 1}
    BY <1>1, <1>3, SearchDecides
  <2>2. ASSUME NEW id \in plan.tagged PROVE ~Agrees(plan, mb.release[id])
    <3>1. id \in Found(plan, mb)
      BY DEF Found
    <3> QED BY <2>1, <3>1 DEF Candidates
  <2>3. \A q \in Requests(plan, mb) : Answered(mb, q)
    BY <1>1, <1>3 DEF SearchAnswered
  <2> QED BY <2>2, <2>3
<1> HIDE DEF decision, later
<1>4. IdentityAsStatedFor(plan, mb, more) <=>
        /\ decision.status = "EXACT" =>
             \A id \in decision.releases :
               /\ EvaluateMatch(mb.release[id].tracks, plan.tracks)[1] = "ENRICHING"
               /\ Cardinality(plan.tagged) < 2 /\ plan.tagged \subseteq {id}
               /\ Extends(more, mb) /\ SearchAnswered(plan, more) =>
                    later.status \in {"EXACT", "AMBIGUOUS"} /\ id \in later.releases
        /\ decision.status = "NO_MATCH" =>
             /\ \A q \in Requests(plan, mb) : Answered(mb, q)
             /\ \A id \in plan.tagged : ~Agrees(plan, mb.release[id])
  BY Zenon DEF IdentityAsStatedFor, decision, later
<1> QED BY <1>2, <1>3, <1>4, Zenon

-----------------------------------------------------------------------------
(* What the run of the rules checks on its inputs, from the theorems above:  *)
(* the inputs have the form that these ask for (InputsForm).                 *)

\* The inputs that a behaviour of MCSpec can be about.
RulesInputs == {Rule(name) : name \in {"arbitration", "setup", "catalog"}}
InputType == input \in RulesInputs \union (MatchInputs \union IdentityInputs \union PlanInputs)

\* A behaviour stays with its input.
LEMMA InputStays == MCSpec => []InputType
<1>1. MCInit => InputType
  BY DEF MCInit, InputType, RulesInputs
<1>2. InputType /\ [MCNext]_<<rulesVars, reconcileVars, catalogVars, input>> => InputType'
  <2> SUFFICES ASSUME InputType, [MCNext]_<<rulesVars, reconcileVars, catalogVars, input>> PROVE InputType'
    OBVIOUS
  <2>1. input' = input
    BY DEF MCNext
  <2> QED BY <2>1 DEF InputType
<1> QED BY <1>1, <1>2, PTL DEF MCSpec

\* The name of the rule tells which input it is.
LEMMA InputsTold ==
  ASSUME InputType
  PROVE  /\ input.rule = "match" => input \in MatchInputs
         /\ input.rule = "identity" => input \in IdentityInputs
         /\ input.rule = "plan" => input \in PlanInputs
<1>1. \A i \in RulesInputs : i.rule \in {"arbitration", "setup", "catalog"}
  BY DEF RulesInputs, Rule
<1>2. \A i \in MatchInputs : i.rule = "match"
  BY DEF MatchInputs
<1>3. \A i \in IdentityInputs : i.rule = "identity"
  BY DEF IdentityInputs
<1>4. \A i \in PlanInputs : i.rule = "plan"
  <2> DEFINE sets == UNION {Approving(paths) : paths \in SUBSET TrackPaths \ {{}}}
             made(files, others, artwork, other) ==
               [rule |-> "plan", paths |-> others \union {f.path : f \in files},
                files |-> Claimed(files, other),
                decision |-> [destination |-> "UNMANAGED", release |-> "", plan |-> Approved3(files, artwork)]]
  <2>1. PlanInputs = {made(files, others, artwork, other) :
                        files \in sets, others \in Others, artwork \in BOOLEAN, other \in {"o", "p"}}
    BY DEF PlanInputs
  <2>2. \A files, others, artwork, other : made(files, others, artwork, other).rule = "plan"
    OBVIOUS
  <2> HIDE DEF sets, made
  <2> QED BY <2>1, <2>2
<1> QED BY <1>1, <1>2, <1>3, <1>4 DEF InputType

\* Every input of MatchRelease is given the verdict the policy states.
THEOREM MatchesAreAsStated == MCSpec => []MatchAsStated
<1>1. InputType => MatchAsStated
  BY InputsTold, InputsForm, MatchIsAsStated DEF MatchAsStated
<1> QED BY <1>1, InputStays, PTL

\* Every input of IdentityService.Decide is decided as stated, whichever longer
\* lists MusicBrainz answers with.
THEOREM IdentitiesAreAsStated == MCSpec => []IdentityAsStated
<1>1. InputType => IdentityAsStated
  BY InputsTold, InputsForm, IdentityIsAsStated DEF IdentityAsStated
<1> QED BY <1>1, InputStays, PTL

\* The layout of an input's plan has one place for every entry, shared by the
\* lyrics of one track only.
THEOREM TargetsAreDistinct == MCSpec => []TargetsDistinct
<1>1. InputType => TargetsDistinct
  BY InputsTold, InputsForm, PlansAreLaidOut DEF TargetsDistinct
<1> QED BY <1>1, InputStays, PTL

\* What is written for an input's decision is read back as its plan.
THEOREM PlansReadBack == MCSpec => []PlanReadBack
<1>1. InputType => PlanReadBack
  BY InputsTold, InputsForm, PlansAreReadBack DEF PlanReadBack
<1> QED BY <1>1, InputStays, PTL
=============================================================================
