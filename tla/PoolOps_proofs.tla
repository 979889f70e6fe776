---------------------------- MODULE PoolOps_proofs ----------------------------
(***************************************************************************)
(* What the operators of PoolOps return, for every finite set of addresses *)
(* and every latency range: pools again, never larger than they were asked *)
(* to be, and a best and a worst entry wherever there is an entry.         *)
(***************************************************************************)
EXTENDS PoolOps, FiniteSetTheorems, WellFoundedInduction, TLAPS

-----------------------------------------------------------------------------
(* Levels and the shape of pools. *)

LEMMA LevelFacts ==
  /\ Level \subseteq Int
  /\ Absent \in Level /\ Unprobed \in Level /\ Failing \in Level
  /\ Measured \subseteq Level /\ Absent \notin Measured
  /\ Unprobed # Absent /\ Failing # Absent
  BY LatencyAssumption DEF Level, Absent, Unprobed, Failing, Measured

LEMMA InType == ASSUME NEW p PROVE In(p) \in SUBSET IP
  BY DEF In

LEMMA EmptyIsPool == EmptyPool \in Pool
  BY LevelFacts DEF Pool, EmptyPool

LEMMA PoolShapes ==
  ASSUME NEW p \in Pool, NEW q \in Pool, NEW S
  PROVE  /\ Only(p, S) \in Pool
         /\ Without(p, S) \in Pool
         /\ Union(p, q) \in Pool
         /\ \A i \in IP, level \in Level : With(p, i, level) \in Pool
  BY LevelFacts DEF Pool, EmptyPool, Only, Without, Union, With

\* Who is in the result.
LEMMA Members ==
  ASSUME NEW p, NEW q, NEW S
  PROVE  /\ In(EmptyPool) = {}
         /\ In(Only(p, S)) = In(p) \cap S
         /\ In(Without(p, S)) = In(p) \ S
         /\ In(Union(p, q)) = In(p) \cup In(q)
  BY DEF In, EmptyPool, Only, Without, Union

LEMMA MembersOfWith ==
  ASSUME NEW p \in Pool, NEW i \in IP, NEW level
  PROVE  In(With(p, i, level)) \subseteq In(p) \cup {i}
  BY DEF In, With, Pool

LEMMA SizeType ==
  ASSUME NEW p
  PROVE  IsFiniteSet(In(p)) /\ Size(p) \in 0..Cardinality(IP)
  <1>1. In(p) \in SUBSET IP BY InType
  <1>2. IsFiniteSet(In(p)) /\ Cardinality(In(p)) <= Cardinality(IP)
    BY <1>1, IPAssumption, FS_Subset
  <1>3. Cardinality(In(p)) \in Nat /\ Cardinality(IP) \in Nat
    BY <1>2, IPAssumption, FS_CardinalityType
  <1> QED BY <1>2, <1>3 DEF Size

-----------------------------------------------------------------------------
(***************************************************************************)
(* The order of a pool is total, so a pool that is not empty has a first   *)
(* and a last entry.  Both are found as a minimal element of the finite    *)
(* sets of entries ahead of (behind) an entry.                             *)
(***************************************************************************)
LEMMA OrderTotal ==
  ASSUME NEW p \in Pool, NEW i \in IP, NEW j \in IP
  PROVE  /\ ~Before(p, i, i)
         /\ i # j => (Before(p, i, j) <=> ~Before(p, j, i))
         /\ \A k \in IP : Before(p, i, j) /\ Before(p, j, k) => Before(p, i, k)
  <1>1. \A k \in IP : p[k] \in Level BY DEF Pool
  <1>2. \A k \in IP : p[k] \in Int BY <1>1, LevelFacts
  <1>3. \A k \in IP : k \in Int BY IPAssumption
  <1> QED BY <1>2, <1>3 DEF Before

\* Among finitely many sets, one has no other strictly inside it.
LEMMA MinimalSet ==
  ASSUME NEW S, IsFiniteSet(S), NEW F \in SUBSET (SUBSET S), F # {}
  PROVE  \E X \in F : \A Y \in F : Y \subseteq X => Y = X
  <1>1. IsWellFoundedOn(StrictSubsetOrdering(S), SUBSET S)
    BY FS_StrictSubsetOrderingWellFounded, FS_FiniteSubsetsOfFinite
  <1>2. \E X \in F : \A Y \in F : ~(<<Y, X>> \in StrictSubsetOrdering(S))
    BY <1>1, WFMin, Zenon
  <1>3. PICK X \in F : \A Y \in F : <<Y, X>> \notin StrictSubsetOrdering(S)
    BY <1>2
  <1>4. ASSUME NEW Y \in F, Y \subseteq X, Y # X PROVE FALSE
    BY <1>3, <1>4 DEF StrictSubsetOrdering
  <1> QED BY <1>4

LEMMA BestIsFirst ==
  ASSUME NEW p \in Pool, In(p) # {}
  PROVE  Best(p) \in In(p) /\ Ahead(p, In(p), Best(p)) = {}
  <1> DEFINE S == In(p)
             F == {Ahead(p, S, i) : i \in S}
  <1>0. IsFiniteSet(S) /\ S \subseteq IP BY SizeType, InType
  <1>1. F \in SUBSET (SUBSET S) /\ F # {} BY DEF Ahead
  <1>2. PICK X \in F : \A Y \in F : Y \subseteq X => Y = X
    <2> HIDE DEF F, S
    <2> QED BY <1>0, <1>1, MinimalSet
  <1>3. PICK i \in S : X = Ahead(p, S, i) BY <1>2
  <1>4. Ahead(p, S, i) = {}
    <2> SUFFICES ASSUME NEW j \in Ahead(p, S, i) PROVE FALSE OBVIOUS
    <2>1. j \in S /\ j \in IP /\ i \in IP /\ Before(p, j, i) BY <1>0 DEF Ahead
    <2>2. Ahead(p, S, j) \subseteq Ahead(p, S, i)
      BY <1>0, <2>1, OrderTotal DEF Ahead
    <2>3. j \notin Ahead(p, S, j) BY <2>1, OrderTotal DEF Ahead
    <2> QED BY <1>2, <1>3, <2>1, <2>2, <2>3
  <1> QED BY <1>4 DEF Best

LEMMA WorstIsLast ==
  ASSUME NEW p \in Pool, In(p) # {}
  PROVE  /\ Worst(p) \in In(p)
         /\ \A j \in In(p) : j = Worst(p) \/ Before(p, j, Worst(p))
  <1> DEFINE S == In(p)
             Behind(i) == {j \in S : Before(p, i, j)}
             F == {Behind(i) : i \in S}
  <1>0. IsFiniteSet(S) /\ S \subseteq IP BY SizeType, InType
  <1>1. F \in SUBSET (SUBSET S) /\ F # {} OBVIOUS
  <1>2. PICK X \in F : \A Y \in F : Y \subseteq X => Y = X
    <2> HIDE DEF F, S
    <2> QED BY <1>0, <1>1, MinimalSet
  <1>3. PICK i \in S : X = Behind(i) BY <1>2
  <1>4. ASSUME NEW j \in Behind(i) PROVE FALSE
    <2>1. j \in S /\ j \in IP /\ i \in IP /\ Before(p, i, j) BY <1>0, <1>4
    <2>2. Behind(j) \subseteq Behind(i) BY <1>0, <2>1, OrderTotal
    <2>3. j \notin Behind(j) BY <2>1, OrderTotal
    <2> QED BY <1>2, <1>3, <1>4, <2>1, <2>2, <2>3
  <1>5. \A j \in S : j = i \/ Before(p, j, i)
    BY <1>0, <1>4, OrderTotal
  <1> QED BY <1>5 DEF Worst

-----------------------------------------------------------------------------
(* The n best entries are at most n: their positions are 0..n-1, each once. *)

LEMMA RankIsNat ==
  ASSUME NEW p, NEW S \in SUBSET IP, NEW i
  PROVE  IsFiniteSet(Ahead(p, S, i)) /\ Cardinality(Ahead(p, S, i)) \in Nat
  <1>1. Ahead(p, S, i) \in SUBSET IP BY DEF Ahead
  <1> QED BY <1>1, IPAssumption, FS_Subset, FS_CardinalityType

LEMMA RanksDiffer ==
  ASSUME NEW p \in Pool, NEW S \in SUBSET IP, NEW i \in S, NEW j \in S, Before(p, i, j)
  PROVE  Cardinality(Ahead(p, S, i)) < Cardinality(Ahead(p, S, j))
  <1>1. Ahead(p, S, i) \subseteq Ahead(p, S, j) BY OrderTotal DEF Ahead
  <1>2. i \in Ahead(p, S, j) /\ i \notin Ahead(p, S, i) BY OrderTotal DEF Ahead
  <1>3. /\ Cardinality(Ahead(p, S, i)) <= Cardinality(Ahead(p, S, j))
        /\ Cardinality(Ahead(p, S, i)) # Cardinality(Ahead(p, S, j))
    BY <1>1, <1>2, RankIsNat, FS_Subset
  <1> QED BY <1>3, RankIsNat

LEMMA TopType ==
  ASSUME NEW p \in Pool, NEW n
  PROVE  Top(p, n) \in Pool /\ In(Top(p, n)) \subseteq In(p)
  BY PoolShapes, Members DEF Top

LEMMA TopSize ==
  ASSUME NEW p \in Pool, NEW n \in Nat
  PROVE  Size(Top(p, n)) <= n
  <1> DEFINE S == In(p)
             T == {i \in S : Cardinality(Ahead(p, S, i)) < n}
             f == [i \in T |-> Cardinality(Ahead(p, S, i))]
  <1>0. S \in SUBSET IP /\ T \subseteq S BY InType
  <1>1. f \in [T -> 0..(n - 1)]
    <2>1. \A i \in T : Cardinality(Ahead(p, S, i)) \in 0..(n - 1)
      BY <1>0, RankIsNat
    <2> QED BY <2>1
  <1>2. ASSUME NEW i \in T, NEW j \in T, f[i] = f[j] PROVE i = j
    <2>1. Before(p, i, j) => f[i] < f[j] BY <1>0, RanksDiffer
    <2>2. Before(p, j, i) => f[j] < f[i] BY <1>0, RanksDiffer
    <2>3. f[i] \in Int /\ f[j] \in Int BY <1>1
    <2>4. ~Before(p, i, j) /\ ~Before(p, j, i) BY <1>2, <2>1, <2>2, <2>3
    <2> QED BY <1>0, <2>4, OrderTotal
  <1>3. f \in Injection(T, 0..(n - 1)) BY <1>1, <1>2 DEF Injection, IsInjective
  <1>4. IsFiniteSet(0..(n - 1)) /\ Cardinality(0..(n - 1)) = n
    BY FS_Interval
  <1>5. Cardinality(T) <= n BY <1>3, <1>4, FS_Injection
  <1>6. In(Top(p, n)) = T
    <2>1. Top(p, n) = Only(p, T) BY DEF Top
    <2>2. In(Only(p, T)) = S \cap T BY Members
    <2> QED BY <1>0, <2>1, <2>2
  <1> QED BY <1>5, <1>6 DEF Size

LEMMA FillType ==
  ASSUME NEW p \in Pool, NEW q \in Pool, NEW n
  PROVE  Fill(p, q, n) \in Pool
  BY TopType, PoolShapes DEF Fill

\* Filling up stops at the size: what is kept and what is added share it.
LEMMA FillSize ==
  ASSUME NEW p \in Pool, NEW q \in Pool, NEW n \in Nat
  PROVE  Size(Fill(p, q, n)) <= n
  <1> DEFINE kept == Top(p, n)
             rest == Top(Without(q, In(kept)), n - Size(kept))
  <1>1. kept \in Pool /\ Size(kept) <= n /\ Size(kept) \in Nat
    BY TopType, TopSize, SizeType
  <1>2. n - Size(kept) \in Nat BY <1>1
  <1>3. Size(rest) <= n - Size(kept) /\ Size(rest) \in Nat
    <2>1. Without(q, In(kept)) \in Pool BY PoolShapes
    <2>2. Size(rest) <= n - Size(kept) BY <1>2, <2>1, TopSize
    <2> QED BY <2>2, SizeType
  <1> HIDE DEF kept, rest
  <1>4. In(Union(kept, rest)) = In(kept) \cup In(rest) BY Members
  <1>5. Cardinality(In(kept) \cup In(rest)) <= Size(kept) + Size(rest)
    <2>1. IsFiniteSet(In(kept)) /\ IsFiniteSet(In(rest)) BY SizeType
    <2>2. Cardinality(In(kept) \cup In(rest))
            = Cardinality(In(kept)) + Cardinality(In(rest))
              - Cardinality(In(kept) \cap In(rest))
      BY <2>1, FS_Union
    <2>3. Cardinality(In(kept) \cap In(rest)) \in Nat
      BY <2>1, FS_Intersection, FS_CardinalityType
    <2> QED BY <1>1, <1>3, <2>2, <2>3 DEF Size
  <1>6. Size(Union(kept, rest)) <= Size(kept) + Size(rest) BY <1>4, <1>5 DEF Size
  <1>7. Size(Union(kept, rest)) \in Int BY SizeType
  <1> QED BY <1>1, <1>3, <1>6, <1>7 DEF Fill, kept, rest

-----------------------------------------------------------------------------
(* The two selections of app.go. *)

\* A batch never makes more of the healthy and the scanned addresses than
\* pool_size (selectProgressPool).
THEOREM ProgressIsBounded ==
  ASSUME NEW healthy \in Pool, NEW scanned \in Pool, NEW size \in Nat
  PROVE  /\ SelectProgress(healthy, scanned, size) \in Pool
         /\ Size(SelectProgress(healthy, scanned, size)) <= size
  BY FillType, FillSize DEF SelectProgress

\* Neither does the end of a scan, whatever its reason (selectPoolAfterScan).
THEOREM SelectionIsBounded ==
  ASSUME NEW reason, NEW healthy \in Pool, NEW scanned \in Pool, NEW size \in Nat
  PROVE  /\ SelectAfterScan(reason, healthy, scanned, size) \in Pool
         /\ Size(SelectAfterScan(reason, healthy, scanned, size)) <= size
  <1> DEFINE fresh == Top(scanned, size)
  <1>1. fresh \in Pool /\ Size(fresh) <= size BY TopType, TopSize
  <1>2. Fill(healthy, fresh, size) \in Pool /\ Size(Fill(healthy, fresh, size)) <= size
    BY <1>1, FillType, FillSize
  <1> QED BY <1>1, <1>2 DEF SelectAfterScan

\* Of a pool with an address something is kept.
LEMMA TopKeepsBest ==
  ASSUME NEW p \in Pool, In(p) # {}, NEW n \in Nat \ {0}
  PROVE  In(Top(p, n)) # {}
  <1> DEFINE best == {i \in In(p) : Cardinality(Ahead(p, In(p), i)) < n}
  <1>1. Best(p) \in In(p) /\ Ahead(p, In(p), Best(p)) = {} BY BestIsFirst
  <1>2. Cardinality(Ahead(p, In(p), Best(p))) = 0 BY <1>1, FS_EmptySet
  <1>3. Best(p) \in best BY <1>1, <1>2
  <1>4. In(Top(p, n)) = In(p) \cap best BY Members DEF Top
  <1> QED BY <1>1, <1>3, <1>4

LEMMA FillMembers ==
  ASSUME NEW p \in Pool, NEW q \in Pool, NEW n \in Nat
  PROVE  /\ In(Fill(p, q, n)) \subseteq In(p) \cup In(q)
         /\ In(Top(p, n)) \subseteq In(Fill(p, q, n))
  <1> DEFINE kept == Top(p, n)
             others == Without(q, In(kept))
             rest == Top(others, n - Size(kept))
  <1>1. kept \in Pool /\ In(kept) \subseteq In(p) BY TopType
  <1>2. others \in Pool /\ In(others) \subseteq In(q) BY PoolShapes, Members
  <1>3. In(rest) \subseteq In(others)
    <2> HIDE DEF others
    <2> QED BY <1>2, TopType
  <1> HIDE DEF kept, others, rest
  <1>4. In(Union(kept, rest)) = In(kept) \cup In(rest) BY Members
  <1> QED BY <1>1, <1>2, <1>3, <1>4 DEF Fill, kept, others, rest

\* The pool selected after a scan that found something usable is not empty and takes
\* its addresses from the healthy ones and the results (selectPoolAfterScan): what
\* makes the pool of NeverPanics empty is the composition after it.
THEOREM SelectionKeepsSome ==
  ASSUME NEW reason, NEW healthy \in Pool, NEW scanned \in Pool, NEW size \in Nat \ {0},
         In(scanned) # {}
  PROVE  /\ In(SelectAfterScan(reason, healthy, scanned, size)) # {}
         /\ In(SelectAfterScan(reason, healthy, scanned, size))
                \subseteq In(healthy) \cup In(scanned)
  <1> DEFINE fresh == Top(scanned, size)
             filled == Fill(healthy, fresh, size)
             faster == fresh[Best(fresh)] < healthy[Best(healthy)]
  <1>1. fresh \in Pool /\ In(fresh) # {} /\ In(fresh) \subseteq In(scanned)
    BY TopType, TopKeepsBest
  <1>2. In(healthy) # {} => In(filled) # {}
    <2>1. In(Top(healthy, size)) \subseteq In(filled)
      <3> HIDE DEF fresh
      <3> QED BY <1>1, FillMembers
    <2> QED BY <2>1, TopKeepsBest
  <1>3. In(filled) \subseteq In(healthy) \cup In(fresh)
    <2> HIDE DEF fresh
    <2> QED BY <1>1, FillMembers
  <1>4. SelectAfterScan(reason, healthy, scanned, size)
          = IF reason # "health" \/ In(healthy) = {} \/ faster THEN fresh ELSE filled
    BY DEF SelectAfterScan
  <1> HIDE DEF fresh, filled, faster
  <1> QED BY <1>1, <1>2, <1>3, <1>4

\* Who fits is kept whole.
LEMMA TopKeepsAll ==
  ASSUME NEW p \in Pool, NEW n \in Nat, Size(p) <= n
  PROVE  In(Top(p, n)) = In(p)
  <1> DEFINE best == {i \in In(p) : Cardinality(Ahead(p, In(p), i)) < n}
  <1>1. ASSUME NEW i \in In(p) PROVE Cardinality(Ahead(p, In(p), i)) < n
    <2> DEFINE ahead == Ahead(p, In(p), i)
    <2>1. In(p) \in SUBSET IP BY InType
    <2>2. ahead \subseteq In(p) \ {i} BY <2>1, OrderTotal DEF Ahead
    <2>3. IsFiniteSet(In(p)) /\ Size(p) \in Nat BY SizeType
    <2>4. IsFiniteSet(In(p) \ {i}) /\ Cardinality(In(p) \ {i}) = Size(p) - 1
      BY <2>3, FS_RemoveElement DEF Size
    <2>5. Cardinality(ahead) <= Cardinality(In(p) \ {i}) /\ Cardinality(ahead) \in Nat
      BY <2>1, <2>2, <2>4, FS_Subset, RankIsNat
    <2> HIDE DEF ahead
    <2>6. Cardinality(ahead) < n BY <2>3, <2>4, <2>5
    <2> QED BY <2>6 DEF ahead
  <1>2. In(Top(p, n)) = In(p) \cap best BY Members DEF Top
  <1>3. In(p) \subseteq best BY <1>1
  <1> QED BY <1>2, <1>3

\* A health rescan whose best result is not faster keeps the healthy addresses, the
\* best of them if they are more than the size it was given, and all otherwise
\* (selectPoolAfterScan; README, line 19).  What HealthyKept misses is therefore lost
\* by the size that rescan computes from the number of results.
THEOREM HealthySelectedFirst ==
  ASSUME NEW healthy \in Pool, NEW scanned \in Pool, NEW size \in Nat,
         In(healthy) # {},
         ~(Top(scanned, size)[Best(Top(scanned, size))] < healthy[Best(healthy)])
  PROVE  /\ In(Top(healthy, size)) \subseteq In(SelectAfterScan("health", healthy, scanned, size))
         /\ Size(healthy) <= size =>
              In(healthy) \subseteq In(SelectAfterScan("health", healthy, scanned, size))
  <1> DEFINE fresh == Top(scanned, size)
  <1>1. fresh \in Pool BY TopType
  <1>2. SelectAfterScan("health", healthy, scanned, size) = Fill(healthy, fresh, size)
    BY DEF SelectAfterScan
  <1> HIDE DEF fresh
  <1>3. In(Top(healthy, size)) \subseteq In(Fill(healthy, fresh, size))
    BY <1>1, FillMembers
  <1>4. Size(healthy) <= size => In(Top(healthy, size)) = In(healthy) BY TopKeepsAll
  <1> QED BY <1>2, <1>3, <1>4

LEMMA FirstOfType ==
  ASSUME NEW p, NEW S, NEW n
  PROVE  FirstOf(p, S, n) \in [IP -> Nat]
  <1>1. \A i \in IP : Cardinality(Ahead(p, S \cap In(p), i)) \in Nat
    BY InType, RankIsNat
  <1> QED BY <1>1 DEF FirstOf

=============================================================================
