--------------------------- MODULE Scanner_proofs ---------------------------
(***************************************************************************)
(* Proofs about Scanner for all sources, limits and numbers of workers.    *)
(***************************************************************************)
EXTENDS Scanner, FiniteSetTheorems, SequenceTheorems, TLAPS

-----------------------------------------------------------------------------
(* Numbers, sequences, cuts. *)

LEMMA Numbers ==
    /\ Limit \in Nat \ {0} /\ ValidIPCount \in Nat \ {0} /\ BatchFloor \in Nat \ {0}
    /\ SpeedLimit \in Nat \ {0} /\ MaxLatency \in Nat \ {0}
  BY NumbersAssumption

\* The candidates that answer come in an order without repetition.
LEMMA RankedFacts ==
  ASSUME NEW C \in SUBSET IP, Cardinality(C) <= Limit, NEW s \in Ranked(Allowed(C))
  PROVE  /\ s \in Seq(IP) /\ Len(s) <= Limit
         /\ \A i, j \in 1..Len(s) : s[i] = s[j] => i = j
  <1>1. PICK R \in SUBSET Allowed(C) : s \in [1..Cardinality(R) -> R] /\ Ran(s) = R
    BY DEF Ranked
  <1>2. IsFiniteSet(C) /\ IsFiniteSet(R) /\ Cardinality(R) <= Cardinality(C)
    <2>1. R \in SUBSET C /\ C \in SUBSET IP
      BY DEF Allowed
    <2> QED BY <2>1, FS_Subset, ListsAssumption
  <1> DEFINE n == Cardinality(R)
  <1>3. n \in Nat /\ Cardinality(C) \in Nat
    BY <1>2, FS_CardinalityType
  <1>4. s \in Seq(R) /\ Len(s) = n
    <2>1. s \in Seq(R)
      BY <1>1, <1>3, SeqDef
    <2> HIDE DEF n
    <2>2. DOMAIN s = 1..n /\ DOMAIN s = 1..Len(s) /\ Len(s) \in Nat
      BY <1>1, <2>1, LenProperties DEF n
    <2> QED BY <1>3, <2>1, <2>2
  <1>5. s \in Seq(IP)
    BY <1>4, SeqMonotonic DEF Allowed
  <1>6. s \in Surjection(1..n, R)
    BY <1>1, <1>4 DEF Surjection, Ran
  <1>7. IsFiniteSet(1..n) /\ Cardinality(1..n) = n
    BY <1>3, FS_Interval
  <1>8. s \in Injection(1..n, R)
    BY <1>6, <1>7, FS_SurjSameCardinalityImpliesInj
  <1>9. \A i, j \in 1..n : s[i] = s[j] => i = j
    BY <1>8 DEF Injection, IsInjective
  <1>10. Cardinality(C) <= Limit
    OBVIOUS
  <1> HIDE DEF n
  <1>11. n <= Cardinality(C)
    BY <1>2 DEF n
  <1>12. Len(s) <= Limit
    BY <1>3, <1>4, <1>10, <1>11, Numbers
  <1> QED BY <1>4, <1>5, <1>9, <1>12

\* The addresses a pool of workers takes from the head of its queue.
LEMMA HeadAndTail ==
  ASSUME NEW q \in Seq(IP), q # <<>>
  PROVE  /\ Head(q) \in IP /\ Tail(q) \in Seq(IP)
         /\ Ran(q) = {Head(q)} \cup Ran(Tail(q))
  <1>1. Head(q) \in IP /\ Tail(q) \in Seq(IP) /\ Len(Tail(q)) = Len(q) - 1
        /\ \A i \in 1..Len(Tail(q)) : Tail(q)[i] = q[i+1]
    BY HeadTailProperties
  <1>2. Len(q) \in Nat \ {0}
    BY EmptySeq
  <1>3. Head(q) = q[1]
    OBVIOUS
  <1>4. ASSUME NEW x \in Ran(q) PROVE x \in {Head(q)} \cup Ran(Tail(q))
    <2>1. PICK i \in 1..Len(q) : x = q[i]
      BY DEF Ran
    <2>2. CASE i = 1
      BY <2>1, <2>2, <1>3
    <2>3. CASE i # 1
      <3>1. i - 1 \in 1..Len(Tail(q)) /\ Tail(q)[i - 1] = q[i]
        BY <2>3, <1>1, <1>2
      <3> QED BY <2>1, <3>1 DEF Ran
    <2> QED BY <2>2, <2>3
  <1>5. ASSUME NEW x \in {Head(q)} \cup Ran(Tail(q)) PROVE x \in Ran(q)
    <2>1. CASE x = Head(q)
      <3>1. 1 \in 1..Len(q)
        BY <1>2
      <3> QED BY <2>1, <3>1, <1>3 DEF Ran
    <2>2. CASE x \in Ran(Tail(q))
      <3>1. PICK i \in 1..Len(Tail(q)) : x = Tail(q)[i]
        BY <2>2 DEF Ran
      <3>2. i + 1 \in 1..Len(q) /\ x = q[i + 1]
        BY <3>1, <1>1, <1>2
      <3> QED BY <3>2 DEF Ran
    <2> QED BY <2>1, <2>2
  <1> QED BY <1>1, <1>4, <1>5

LEMMA EmptyQueue == <<>> \in Seq(IP) /\ Len(<<>>) = 0 /\ Ran(<<>>) = {}
  BY EmptySeq DEF Ran

\* The candidates between two positions of the ranking.
LEMMA Slice ==
  ASSUME NEW s \in Seq(IP), NEW m \in Nat, NEW n \in Nat, m <= n, n <= Len(s)
  PROVE  SubSeq(s, m + 1, n) \in Seq(IP) /\ Ran(SubSeq(s, m + 1, n)) = {s[i] : i \in (m + 1)..n}
  <1>1. Len(s) \in Nat /\ s \in [1..Len(s) -> IP]
    BY LenProperties
  <1>2. \A i \in (m + 1)..n : s[i] \in IP
    BY <1>1
  <1> DEFINE q == SubSeq(s, m + 1, n)
  <1>3. q \in Seq(IP) /\ Len(q) = IF m + 1 <= n THEN n - (m + 1) + 1 ELSE 0
    BY <1>2, SubSeqProperties
  <1>4. \A i \in 1..(n - (m + 1) + 1) : q[i] = s[m + 1 + i - 1]
    BY <1>2, SubSeqProperties
  <1> HIDE DEF q
  <1>5. Len(q) = n - m
    BY <1>3
  <1>6. \A i \in 1..(n - m) : q[i] = s[m + i]
    BY <1>4
  <1>7. ASSUME NEW x \in Ran(q) PROVE x \in {s[i] : i \in (m + 1)..n}
    <2>1. PICK i \in 1..(n - m) : x = s[m + i]
      BY <1>5, <1>6 DEF Ran
    <2>2. m + i \in (m + 1)..n
      OBVIOUS
    <2> QED BY <2>1, <2>2
  <1>8. ASSUME NEW x \in {s[i] : i \in (m + 1)..n} PROVE x \in Ran(q)
    <2>1. PICK i \in (m + 1)..n : x = s[i]
      OBVIOUS
    <2>2. i - m \in 1..(n - m) /\ m + (i - m) = i
      OBVIOUS
    <2>3. x = q[i - m] /\ i - m \in 1..Len(q)
      BY <1>5, <1>6, <2>1, <2>2
    <2> QED BY <2>3 DEF Ran
  <1> QED BY <1>3, <1>7, <1>8 DEF q

\* Cutting keeps the ValidIPCount fastest, or all.
LEMMA CutFacts ==
  ASSUME NEW S, IsFiniteSet(S), NEW T \in Cuts(S)
  PROVE  /\ T \subseteq S /\ IsFiniteSet(T)
         /\ Cardinality(T) \in Nat /\ Cardinality(T) <= ValidIPCount
         /\ T # S => Cardinality(T) = ValidIPCount
         /\ Cardinality(S) >= ValidIPCount => Cardinality(T) = ValidIPCount
         /\ \A t \in T, s \in S \ T : t.latency <= s.latency
  <1>1. /\ T \in SUBSET S
        /\ Cardinality(T) = Smaller(Cardinality(S), ValidIPCount)
        /\ \A t \in T, s \in S \ T : t.latency <= s.latency
    BY DEF Cuts
  <1>2. Cardinality(S) \in Nat /\ IsFiniteSet(T) /\ Cardinality(T) \in Nat
        /\ (Cardinality(S) = Cardinality(T) => S = T)
    BY <1>1, FS_CardinalityType, FS_Subset
  <1>3. Cardinality(T) <= ValidIPCount /\ (T # S => Cardinality(T) = ValidIPCount)
    BY <1>1, <1>2, Numbers DEF Smaller
  <1>4. Cardinality(S) >= ValidIPCount => Cardinality(T) = ValidIPCount
    BY <1>1, <1>2, Numbers DEF Smaller
  <1> QED BY <1>1, <1>2, <1>3, <1>4

\* Two cuts leave the best of the earlier results v0 and all that the batch
\* kept, although most of the batch is gone before the second.
LEMMA TwoCuts ==
  ASSUME NEW v0 \in SUBSET Result, IsFiniteSet(v0), NEW k \in SUBSET Result, IsFiniteSet(k),
         NEW b \in Cuts(k), NEW v \in Cuts(v0 \cup b), NEW r \in (v0 \cup k) \ v
  PROVE  Cardinality(v) = ValidIPCount /\ \A w \in v : w.latency <= r.latency
  <1>1. b \subseteq k /\ IsFiniteSet(b)
    BY CutFacts
  <1>2. IsFiniteSet(v0 \cup b)
    BY <1>1, FS_Union
  <1>3. v \subseteq v0 \cup b /\ IsFiniteSet(v)
    BY <1>2, CutFacts
  <1>4. CASE r \in v0 \cup b
    BY <1>2, <1>4, CutFacts
  <1>5. CASE r \notin v0 \cup b
    <2>1. r \in k \ b
      BY <1>5
    <2>2. Cardinality(b) = ValidIPCount /\ \A t \in b : t.latency <= r.latency
      BY <2>1, CutFacts
    <2>3. Cardinality(v) = ValidIPCount
      <3>1. b \in SUBSET (v0 \cup b)
        OBVIOUS
      <3>2. Cardinality(b) <= Cardinality(v0 \cup b)
        BY <3>1, <1>2, FS_Subset
      <3>3. Cardinality(v0 \cup b) \in Nat
        BY <1>2, FS_CardinalityType
      <3>4. Cardinality(v0 \cup b) >= ValidIPCount
        BY <2>2, <3>2, <3>3, Numbers
      <3> QED BY <1>2, <3>4, CutFacts
    <2>4. ASSUME NEW w \in v PROVE w.latency <= r.latency
      <3>1. CASE w \in b
        BY <3>1, <2>2
      <3>2. CASE w \notin b
        <4>1. PICK t \in b : t \notin v
          <5>1. SUFFICES ASSUME b \in SUBSET v PROVE FALSE
            OBVIOUS
          <5>2. b = v
            BY <5>1, <1>3, <2>2, <2>3, FS_Subset
          <5> QED BY <5>2, <3>2
        <4>2. w.latency <= t.latency
          BY <4>1, <1>2, CutFacts
        <4>3. t.latency <= r.latency
          BY <2>2
        <4>4. w \in Result /\ t \in Result /\ r \in Result
          BY <1>1, <1>3
        <4>5. w.latency \in Nat /\ t.latency \in Nat /\ r.latency \in Nat
          BY <4>4, Numbers DEF Result
        <4> QED BY <4>2, <4>3, <4>5
      <3> QED BY <3>1, <3>2
    <2> QED BY <2>3, <2>4
  <1> QED BY <1>4, <1>5

-----------------------------------------------------------------------------
(* Types. *)

LEMMA EndFacts ==
  ASSUME TypeOK
  PROVE  /\ at \in Nat /\ Len(ranked) \in Nat /\ at <= Len(ranked)
         /\ End \in Nat /\ at <= End /\ End <= Len(ranked)
         /\ \A n \in {End, Smaller(End, at + SpeedLimit)} :
               n \in Nat /\ at <= n /\ n <= End
  <1>1. Len(ranked) \in Nat /\ at \in Nat /\ at <= Len(ranked)
    BY LenProperties DEF TypeOK
  <1>2. BatchSize \in Nat
    BY <1>1, Numbers DEF BatchSize, Smaller, Larger
  <1>3. End \in Nat /\ at <= End /\ End <= Len(ranked)
    BY <1>1, <1>2 DEF End, Smaller
  <1>4. \A n \in {End, Smaller(End, at + SpeedLimit)} : n \in Nat /\ at <= n /\ n <= End
    BY <1>1, <1>3, Numbers DEF Smaller
  <1> QED BY <1>1, <1>3, <1>4

\* What a batch hands to its first pool of workers.
LEMMA BatchSlice ==
  ASSUME TypeOK, NEW n \in {End, Smaller(End, at + SpeedLimit)}
  PROVE  /\ SubSeq(ranked, at + 1, n) \in Seq(IP)
         /\ Ran(SubSeq(ranked, at + 1, n)) = {ranked[i] : i \in (at + 1)..n}
         /\ n \in Nat /\ n <= End
  <1>1. n \in Nat /\ at <= n /\ n <= End /\ n <= Len(ranked) /\ at \in Nat
    BY EndFacts
  <1>2. ranked \in Seq(IP)
    BY DEF TypeOK
  <1> QED BY <1>1, <1>2, Slice

\* The results of the download test, put back into the order of the ranking.
LEMMA PassedQueue ==
  ASSUME TypeOK, IsFiniteSet(kept), NEW q \in InRankOrder(Ips(kept))
  PROVE  q \in Seq(IP) /\ Ran(q) = Ips(kept)
  <1>1. Ips(kept) \subseteq IP
    BY DEF TypeOK, Ips, Result
  <1>2. IsFiniteSet(Ips(kept)) /\ Cardinality(Ips(kept)) \in Nat
    BY <1>1, ListsAssumption, FS_Subset, FS_CardinalityType
  <1>3. q \in [1..Cardinality(Ips(kept)) -> Ips(kept)] /\ Ran(q) = Ips(kept)
    BY DEF InRankOrder
  <1>4. q \in Seq(Ips(kept))
    BY <1>2, <1>3, SeqDef
  <1> QED BY <1>1, <1>3, <1>4, SeqMonotonic

LEMMA TypeStep == IInv /\ [Next]_vars => TypeOK'
  <1> SUFFICES ASSUME IInv, [Next]_vars PROVE TypeOK'
    OBVIOUS
  <1>t. TypeOK /\ IsFiniteSet(valid) /\ IsFiniteSet(kept)
    BY DEF IInv, Accounted
  <1>e. <<>> \in Seq(IP) /\ Len(<<>>) = 0 /\ {} \subseteq Result /\ {} \subseteq IP
    BY EmptyQueue
  <1>0. Cardinality({}) = 0
    BY FS_EmptySet
  <1>1. CASE Scan
    <2>1. Cardinality(valid') <= ValidIPCount /\ Len(ranked') <= Limit /\ at' \in 0..Len(ranked')
      <3>1. valid' = {} /\ ranked' = <<>> /\ at' = 0
        BY <1>1 DEF Scan
      <3> QED BY <1>e, <1>0, <3>1, Numbers
    <2>2. /\ ranked' \in Seq(IP) /\ unread' \subseteq Source /\ phase' \in Phase
          /\ cancelled' \in BOOLEAN
      BY <1>e, <1>1 DEF Scan, Phase
    <2> QED BY <1>t, <1>1, <2>1, <2>2 DEF Scan, TypeOK, pool
  <1>2. ASSUME NEW s \in Source, ReadSource(s) PROVE TypeOK'
    <2>1. Listed[s] \subseteq IP
      BY ListsAssumption
    <2> QED BY <1>t, <1>2, <2>1 DEF ReadSource, TypeOK, pool, results, history
  <1>3. CASE RankTCP
    <2>1. PICK C \in Candidates : ranked' \in Ranked(Allowed(C))
      BY <1>3 DEF RankTCP
    <2>2. C \in SUBSET IP /\ Cardinality(C) <= Limit
      BY <2>1, <1>t DEF Candidates, TypeOK
    <2>3. ranked' \in Seq(IP) /\ Len(ranked') <= Limit
      BY <2>1, <2>2, RankedFacts
    <2>4. phase = "read" /\ at = 0 /\ at' = 0
      BY <1>3 DEF RankTCP, IInv, Accounted
    <2>5. at' \in 0..Len(ranked')
      BY <2>3, <2>4, LenProperties
    <2>6. phase' \in Phase /\ prefixes' \subseteq IP
      BY <1>3 DEF RankTCP, Phase
    <2> QED BY <1>t, <1>3, <2>3, <2>5, <2>6 DEF RankTCP, TypeOK, pool, results, history
  <1>4. CASE NextBatch
    <2>1. at' \in 0..Len(ranked)
      BY <1>t, <1>4, EndFacts DEF NextBatch
    <2>2. queued' \in Seq(IP)
      BY <1>t, <1>4, BatchSlice DEF NextBatch, Starts
    <2>3. running' = {} /\ sent' = {} /\ kept' = {} /\ stopped' = FALSE /\ phase' \in Phase
      BY <1>4 DEF NextBatch, Starts, Phase
    <2> QED BY <1>t, <1>e, <1>4, <2>1, <2>2, <2>3 DEF NextBatch, TypeOK, sources, results, history
  <1>5. CASE Returns
    BY <1>t, <1>5 DEF Returns, TypeOK, Phase, sources, pool, results, history
  <1>6. CASE HandOut
    <2>1. Head(queued) \in IP /\ Tail(queued) \in Seq(IP)
      BY <1>t, <1>6, HeadAndTail DEF HandOut, TypeOK
    <2>2. running' \subseteq IP /\ tested' \subseteq IP /\ probed' \subseteq IP
      BY <1>t, <1>6, <2>1 DEF HandOut, TypeOK
    <2> QED BY <1>t, <1>6, <2>1, <2>2 DEF HandOut, TypeOK, sources, results
  <1>7. ASSUME NEW ip \in running, Finish(ip) PROVE TypeOK'
    <2>1. ip \in IP
      BY <1>t DEF TypeOK
    <2>2. sent' \subseteq Result
      <3>1. \A l \in 0..MaxLatency : [ip |-> ip, latency |-> l] \in Result
        BY <2>1 DEF Result
      <3>2. 0 \in 0..MaxLatency /\ 1..MaxLatency \subseteq 0..MaxLatency
        BY Numbers
      <3>3. sent \subseteq Result
        BY <1>t DEF TypeOK
      <3> QED BY <1>7, <3>1, <3>2, <3>3 DEF Finish
    <2> QED BY <1>t, <1>7, <2>2 DEF Finish, TypeOK, sources, results, history
  <1>8. ASSUME NEW r \in sent, Take(r) PROVE TypeOK'
    <2>1. r \in Result /\ r.ip \in IP
      BY <1>t DEF TypeOK, Result
    <2>2. sent' \subseteq Result /\ kept' \subseteq Result /\ passed' \subseteq IP /\ found' \subseteq Result
      BY <1>t, <1>8, <2>1 DEF Take, TypeOK
    <2>3. stopped' \in BOOLEAN
      BY <1>8 DEF Take
    <2> QED BY <1>t, <1>8, <2>2, <2>3 DEF Take, TypeOK, sources, results
  <1>9. CASE SpeedFilterEnds
    <2>1. PICK q \in InRankOrder(Ips(kept)) : Starts(q)
      BY <1>9 DEF SpeedFilterEnds
    <2>2. q \in Seq(IP)
      BY <1>t, PassedQueue
    <2>3. phase' \in Phase
      BY <1>9 DEF SpeedFilterEnds, Phase
    <2> QED BY <1>t, <1>e, <1>9, <2>1, <2>2, <2>3
          DEF SpeedFilterEnds, Starts, TypeOK, sources, results, history
  <1>10. CASE Merge
    <2>1. PICK batch \in Cuts(kept) :
             LET new == {r \in batch : r.ip \notin seenValid}
             IN  seenValid' = seenValid \cup Ips(new) /\ valid' \in Cuts(valid \cup new)
      BY <1>10 DEF Merge
    <2> DEFINE new == {r \in batch : r.ip \notin seenValid}
    <2>2. batch \subseteq kept /\ IsFiniteSet(batch)
      BY <1>t, CutFacts
    <2>3. new \subseteq kept /\ new \in SUBSET batch
      BY <2>2
    <2> HIDE DEF new
    <2>4. IsFiniteSet(valid \cup new)
      BY <1>t, <2>2, <2>3, FS_Subset, FS_Union
    <2>5. valid' \in Cuts(valid \cup new)
      BY <2>1 DEF new
    <2>6. valid' \subseteq valid \cup new /\ Cardinality(valid') <= ValidIPCount
      BY <2>4, <2>5, CutFacts
    <2>7. Ips(new) \subseteq IP
      BY <1>t, <2>3 DEF TypeOK, Ips, Result
    <2>8. seenValid' \subseteq IP
      BY <1>t, <2>1, <2>7 DEF TypeOK, new
    <2>9. valid' \subseteq Result
      BY <1>t, <2>3, <2>6 DEF TypeOK
    <2>10. phase' \in Phase /\ queued' = <<>> /\ running' = {} /\ sent' = {} /\ kept' = {} /\ stopped' = FALSE
      BY <1>10 DEF Merge, Starts, Phase
    <2> QED BY <1>t, <1>e, <1>10, <2>6, <2>8, <2>9, <2>10 DEF Merge, TypeOK, sources, history
  <1>11. CASE Cancel
    BY <1>t, <1>11 DEF Cancel, TypeOK, sources, pool, results, history
  <1>12. CASE UNCHANGED vars
    BY <1>t, <1>12 DEF vars, TypeOK, sources, pool, results, history
  <1> QED BY <1>1, <1>2, <1>3, <1>4, <1>5, <1>6, <1>7, <1>8, <1>9, <1>10, <1>11, <1>12 DEF Next

-----------------------------------------------------------------------------
(* Batches are disjoint. *)

LEMMA BatchesStep == IInv /\ [Next]_vars => BatchesDisjoint'
  <1> SUFFICES ASSUME IInv, [Next]_vars PROVE BatchesDisjoint'
    OBVIOUS
  <1>t. TypeOK /\ IsFiniteSet(valid) /\ IsFiniteSet(kept)
    BY DEF IInv, Accounted
  <1>e. Len(<<>>) = 0 /\ Ran(<<>>) = {}
    BY EmptyQueue
  <1>i. \A i, j \in 1..Len(ranked) : ranked[i] = ranked[j] => i = j
    BY DEF IInv, BatchesDisjoint
  <1>s. seenValid \subseteq Taken
    BY DEF IInv, BatchesDisjoint
  <1>p. InPool => InHand \subseteq Taken /\ InHand \cap seenValid = {}
    BY DEF IInv, BatchesDisjoint
  <1>n. ~InPool => running = {} /\ sent = {}
    BY DEF IInv, BatchesDisjoint
  \* Steps that leave the ranking and the pool of workers alone.
  <1>a. ASSUME UNCHANGED <<ranked, at, seenValid>>, InHand' \subseteq InHand,
               InPool' => InPool, ~InPool' => running' = {} /\ sent' = {}
        PROVE  BatchesDisjoint'
    <2>1. Taken' = Taken
      BY <1>a DEF Taken
    <2> QED BY <1>a, <1>i, <1>s, <1>p, <2>1 DEF BatchesDisjoint
  <1>b. ASSUME UNCHANGED <<ranked, at, seenValid, queued, running, sent, kept>>, InPool' <=> InPool
        PROVE  BatchesDisjoint'
    <2>1. InHand' = InHand
      BY <1>b DEF InHand, Ran, Ips
    <2> QED BY <1>a, <1>b, <1>n, <2>1
  <1>1. CASE Scan
    <2>1. ranked' = <<>> /\ at' = 0 /\ seenValid' = {} /\ ~InPool' /\ ~InPool
      BY <1>1 DEF Scan, InPool
    <2>2. running' = {} /\ sent' = {}
      BY <1>1, <1>n, <2>1 DEF Scan, pool
    <2>3. 1..Len(ranked') = {}
      BY <1>e, <2>1
    <2> QED BY <2>1, <2>2, <2>3 DEF BatchesDisjoint
  <1>2. ASSUME NEW s \in Source, ReadSource(s) PROVE BatchesDisjoint'
    BY <1>b, <1>2 DEF ReadSource, pool, results, InPool
  <1>3. CASE RankTCP
    <2>1. PICK C \in Candidates : ranked' \in Ranked(Allowed(C))
      BY <1>3 DEF RankTCP
    <2>2. C \in SUBSET IP /\ Cardinality(C) <= Limit
      BY <2>1, <1>t DEF Candidates, TypeOK
    <2>3. \A i, j \in 1..Len(ranked') : ranked'[i] = ranked'[j] => i = j
      BY <2>1, <2>2, RankedFacts
    <2>4. seenValid' = {} /\ ~InPool /\ ~InPool'
      BY <1>3 DEF RankTCP, IInv, Accounted, InPool, results
    <2>5. running' = {} /\ sent' = {}
      BY <1>3, <1>n, <2>4 DEF RankTCP, pool
    <2> QED BY <2>3, <2>4, <2>5 DEF BatchesDisjoint
  <1>4. CASE NextBatch
    <2>1. PICK n \in {End, Smaller(End, at + SpeedLimit)} : Starts(SubSeq(ranked, at + 1, n))
      BY <1>4 DEF NextBatch
    <2>2. n \in Nat /\ n <= End /\ Ran(SubSeq(ranked, at + 1, n)) = {ranked[i] : i \in (at + 1)..n}
      BY <1>t, BatchSlice
    <2>3. /\ at \in Nat /\ End \in Nat /\ at <= End /\ End <= Len(ranked) /\ Len(ranked) \in Nat
      BY <1>t, EndFacts
    <2>4. at' = End /\ ranked' = ranked /\ seenValid' = seenValid /\ InPool'
      BY <1>4 DEF NextBatch, results, InPool
    <2>5. InHand' = {ranked[i] : i \in (at + 1)..n}
      BY <2>1, <2>2 DEF Starts, InHand, Ips
    <2>6. Taken \subseteq Taken'
      BY <2>3, <2>4 DEF Taken
    <2>7. InHand' \subseteq Taken'
      BY <2>2, <2>3, <2>4, <2>5 DEF Taken
    <2>8. InHand' \cap seenValid = {}
      <3>1. SUFFICES ASSUME NEW x \in InHand', x \in seenValid PROVE FALSE
        OBVIOUS
      <3>2. PICK j \in (at + 1)..n : x = ranked[j]
        BY <2>5, <3>1
      <3>3. PICK i \in 1..at : x = ranked[i]
        BY <1>s, <3>1 DEF Taken
      <3>4. i \in 1..Len(ranked) /\ j \in 1..Len(ranked) /\ i # j
        BY <2>2, <2>3
      <3> QED BY <1>i, <3>2, <3>3, <3>4
    <2> QED BY <1>i, <1>s, <2>4, <2>6, <2>7, <2>8 DEF BatchesDisjoint
  <1>5. CASE Returns
    BY <1>b, <1>5 DEF Returns, pool, results, InPool
  <1>6. CASE HandOut
    <2>1. Ran(queued) = {Head(queued)} \cup Ran(Tail(queued))
      BY <1>t, <1>6, HeadAndTail DEF HandOut, TypeOK
    <2>2. InHand' = InHand
      BY <1>6, <2>1 DEF HandOut, InHand, Ran, Ips
    <2> QED BY <1>a, <1>6, <2>2 DEF HandOut, results, InPool
  <1>7. ASSUME NEW ip \in running, Finish(ip) PROVE BatchesDisjoint'
    <2>1. Ips(sent') \subseteq Ips(sent) \cup {ip}
      BY <1>7 DEF Finish, Ips
    <2>2. InHand' \subseteq InHand
      BY <1>7, <2>1 DEF Finish, InHand, Ran, Ips
    <2>3. InPool /\ InPool'
      BY <1>7, <1>n DEF Finish, InPool
    <2> QED BY <1>a, <1>7, <2>2, <2>3 DEF Finish, results
  <1>8. ASSUME NEW r \in sent, Take(r) PROVE BatchesDisjoint'
    <2>1. Ips(sent') \subseteq Ips(sent) /\ Ips(kept') = Ips(kept) \cup {r.ip} /\ r.ip \in Ips(sent)
      BY <1>8 DEF Take, Ips
    <2>2. InHand' \subseteq InHand
      BY <1>8, <2>1 DEF Take, InHand, Ran
    <2>3. InPool /\ InPool'
      BY <1>8, <1>n DEF Take, InPool
    <2> QED BY <1>a, <1>8, <2>2, <2>3 DEF Take, results
  <1>9. CASE SpeedFilterEnds
    <2>1. PICK q \in InRankOrder(Ips(kept)) : Starts(q)
      BY <1>9 DEF SpeedFilterEnds
    <2>2. Ran(q) = Ips(kept)
      BY <1>t, PassedQueue
    <2>3. InHand' \subseteq InHand
      BY <2>1, <2>2 DEF Starts, InHand, Ips
    <2>4. InPool /\ running' = {} /\ sent' = {}
      BY <1>9, <2>1 DEF SpeedFilterEnds, Starts, InPool
    <2> QED BY <1>a, <1>9, <2>3, <2>4 DEF SpeedFilterEnds, results
  <1>10. CASE Merge
    <2>1. PICK batch \in Cuts(kept) :
             seenValid' = seenValid \cup Ips({r \in batch : r.ip \notin seenValid})
      BY <1>10 DEF Merge
    <2>2. batch \subseteq kept
      BY <1>t, CutFacts
    <2>3. Ips({r \in batch : r.ip \notin seenValid}) \subseteq InHand
      BY <2>2 DEF Ips, InHand
    <2>4. InPool /\ ~InPool' /\ running' = {} /\ sent' = {} /\ Taken' = Taken /\ ranked' = ranked
      BY <1>10 DEF Merge, Starts, InPool, Taken
    <2>5. seenValid' \subseteq Taken'
      BY <1>s, <1>p, <2>1, <2>3, <2>4
    <2> QED BY <1>i, <2>4, <2>5 DEF BatchesDisjoint
  <1>11. CASE Cancel
    BY <1>b, <1>11 DEF Cancel, pool, results, InPool
  <1>12. CASE UNCHANGED vars
    BY <1>b, <1>12 DEF vars, pool, results, InPool
  <1> QED BY <1>1, <1>2, <1>3, <1>4, <1>5, <1>6, <1>7, <1>8, <1>9, <1>10, <1>11, <1>12 DEF Next

-----------------------------------------------------------------------------
(* What the probes found is accounted for. *)

\* Nothing of the batch was a result before, so all of its cut is merged.
LEMMA MergeFacts ==
  ASSUME IInv, Merge
  PROVE  \E batch \in Cuts(kept) : valid' \in Cuts(valid \cup batch)
  <1>1. PICK batch \in Cuts(kept) :
             valid' \in Cuts(valid \cup {r \in batch : r.ip \notin seenValid})
    BY DEF Merge
  <1>2. batch \subseteq kept
    BY CutFacts DEF IInv, Accounted
  <1>3. InHand \cap seenValid = {}
    BY DEF Merge, IInv, BatchesDisjoint, InPool
  <1>4. \A r \in batch : r.ip \in InHand
    BY <1>2 DEF InHand, Ips
  <1>5. {r \in batch : r.ip \notin seenValid} = batch
    BY <1>3, <1>4
  <1> QED BY <1>1, <1>5

LEMMA AccountedStep == IInv /\ [Next]_vars => Accounted'
  <1> SUFFICES ASSUME IInv, [Next]_vars PROVE Accounted'
    OBVIOUS
  <1>t. TypeOK
    BY DEF IInv
  <1>f. IsFiniteSet(valid) /\ IsFiniteSet(kept) /\ IsFiniteSet({})
    BY FS_EmptySet DEF IInv, Accounted
  <1>n. Cardinality(valid) \in Nat
    BY <1>f, FS_CardinalityType
  \* Steps that touch none of the results.
  <1>a. ASSUME UNCHANGED <<phase, at, kept, results, passed, found>> PROVE Accounted'
    BY <1>a DEF IInv, Accounted, BestOfFound, InPool, results
  <1>1. CASE Scan
    BY <1>1, <1>f DEF Scan, Accounted, InPool, pool
  <1>2. ASSUME NEW s \in Source, ReadSource(s) PROVE Accounted'
    BY <1>a, <1>2 DEF ReadSource, pool, history
  <1>3. CASE RankTCP
    <2>1. phase' \in {"idle", "next"} /\ UNCHANGED <<valid, kept, found>>
      BY <1>3 DEF RankTCP, pool, results, history
    <2>2. valid = {} /\ found = {}
      BY <1>3 DEF RankTCP, IInv, Accounted
    <2> QED BY <1>f, <2>1, <2>2 DEF Accounted, BestOfFound, InPool
  <1>4. CASE NextBatch
    <2>1. phase = "next" /\ Cardinality(valid) < ValidIPCount
      BY <1>4 DEF NextBatch, More
    <2>2. valid \subseteq found /\ BestOfFound
      BY <2>1 DEF IInv, Accounted
    <2>3. found = valid
      BY <1>n, <2>1, <2>2, Numbers DEF BestOfFound
    <2>4. kept' = {} /\ UNCHANGED <<valid, found>> /\ phase' \in {"speed", "probe"}
      BY <1>4 DEF NextBatch, Starts, results, history
    <2> QED BY <1>f, <2>1, <2>3, <2>4 DEF Accounted, InPool
  <1>5. CASE Returns
    BY <1>5, <1>f DEF Returns, Accounted, InPool, pool, results
  <1>6. CASE HandOut
    BY <1>a, <1>6 DEF HandOut
  <1>7. ASSUME NEW ip \in running, Finish(ip) PROVE Accounted'
    BY <1>a, <1>7 DEF Finish, history
  <1>8. ASSUME NEW r \in sent, Take(r) PROVE Accounted'
    <2>1. InPool
      BY DEF IInv, BatchesDisjoint
    <2>2. IsFiniteSet(kept')
      BY <1>f, <1>8, FS_AddElement DEF Take
    <2>3. Cardinality(valid) < ValidIPCount /\ UNCHANGED <<phase, valid>>
      BY <1>8, <2>1 DEF IInv, Accounted, Take, results
    <2>4. CASE phase = "speed"
      <3>1. found' = found /\ found = valid
        BY <1>8, <2>4 DEF Take, IInv, Accounted
      <3> QED BY <1>f, <2>2, <2>3, <2>4, <3>1 DEF Accounted
    <2>5. CASE phase = "probe"
      <3>1. found' = found \cup {r} /\ kept' = kept \cup {r} /\ found = valid \cup kept
        BY <1>8, <2>5 DEF Take, IInv, Accounted
      <3> QED BY <1>f, <2>2, <2>3, <2>5, <3>1 DEF Accounted
    <2> QED BY <2>1, <2>4, <2>5 DEF InPool
  <1>9. CASE SpeedFilterEnds
    <2>1. phase = "speed" /\ phase' \in {"next", "probe"} /\ kept' = {}
      BY <1>9 DEF SpeedFilterEnds, Starts
    <2>2. UNCHANGED <<valid, found>> /\ found = valid /\ Cardinality(valid) < ValidIPCount
      BY <1>9, <2>1 DEF SpeedFilterEnds, results, history, IInv, Accounted, InPool
    <2> QED BY <1>f, <2>1, <2>2 DEF Accounted, BestOfFound, InPool
  <1>10. CASE Merge
    <2>1. PICK batch \in Cuts(kept) : valid' \in Cuts(valid \cup batch)
      BY <1>10, MergeFacts
    <2>2. batch \subseteq kept /\ IsFiniteSet(batch)
      BY <1>f, CutFacts
    <2>3. IsFiniteSet(valid \cup batch)
      BY <1>f, <2>2, FS_Union
    <2>4. valid' \subseteq valid \cup batch /\ IsFiniteSet(valid')
      BY <2>1, <2>3, CutFacts
    <2>5. phase = "probe" /\ phase' = "next" /\ kept' = {} /\ found' = found
      BY <1>10 DEF Merge, Starts, history
    <2>6. found = valid \cup kept
      BY <2>5 DEF IInv, Accounted
    <2>7. valid \in SUBSET Result /\ kept \in SUBSET Result
      BY <1>t DEF TypeOK
    <2>8. \A r \in found \ valid' : Cardinality(valid') = ValidIPCount
                                    /\ \A w \in valid' : w.latency <= r.latency
      BY <1>f, <2>1, <2>6, <2>7, TwoCuts
    <2>9. BestOfFound'
      BY <2>5, <2>8 DEF BestOfFound
    <2> QED BY <1>f, <2>2, <2>4, <2>5, <2>6, <2>9 DEF Accounted, InPool
  <1>11. CASE Cancel
    BY <1>a, <1>11 DEF Cancel, pool, history
  <1>12. CASE UNCHANGED vars
    BY <1>a, <1>12 DEF vars, pool, history
  <1> QED BY <1>1, <1>2, <1>3, <1>4, <1>5, <1>6, <1>7, <1>8, <1>9, <1>10, <1>11, <1>12 DEF Next

-----------------------------------------------------------------------------
(* Who still has to be probed is in line. *)

LEMMA InLineStep == IInv /\ [Next]_vars => InLine'
  <1> SUFFICES ASSUME IInv, [Next]_vars PROVE InLine'
    OBVIOUS
  <1>t. TypeOK /\ IsFiniteSet(valid) /\ IsFiniteSet(kept)
    BY DEF IInv, Accounted
  <1>l. InLine
    BY DEF IInv
  \* Steps that leave the candidates and their results alone.
  <1>a. ASSUME UNCHANGED <<speedTest, phase, ranked, at, queued, kept, stopped, valid,
                           passed, probed>>, cancelled => cancelled'
        PROVE  InLine'
    <2>1. Taken' = Taken /\ ToProbe' = ToProbe
      BY <1>a DEF Taken, ToProbe
    <2> QED BY <1>a, <1>l, <2>1 DEF InLine, InPool, Ran, Ips
  <1>1. CASE Scan
    BY <1>1 DEF Scan, InLine, InPool
  <1>2. ASSUME NEW s \in Source, ReadSource(s) PROVE InLine'
    BY <1>a, <1>2 DEF ReadSource, pool, results, history
  <1>3. CASE RankTCP
    <2>1. phase' \in {"idle", "next"} /\ at' = 0 /\ passed' = {}
      BY <1>3 DEF RankTCP, IInv, Accounted, history
    <2>2. ToProbe' = {}
      BY <2>1 DEF ToProbe, Taken
    <2> QED BY <2>1, <2>2 DEF InLine, InPool
  <1>4. CASE NextBatch
    <2>1. phase = "next" /\ Cardinality(valid) < ValidIPCount
      BY <1>4 DEF NextBatch, More
    <2>2. cancelled \/ ToProbe \subseteq probed
      <3>1. Cardinality(valid) \in Nat
        BY <1>t, FS_CardinalityType
      <3> QED BY <1>l, <2>1, <3>1, Numbers DEF InLine
    <2>3. UNCHANGED <<speedTest, cancelled, ranked, passed, probed>> /\ stopped' = FALSE /\ at' = End
      BY <1>4 DEF NextBatch, Starts, history
    <2>4. CASE speedTest
      <3>1. phase' = "speed"
        BY <1>4, <2>4 DEF NextBatch
      <3>2. ToProbe = passed
        BY <2>4 DEF ToProbe
      <3> QED BY <2>2, <2>3, <2>4, <3>1, <3>2 DEF InLine
    <2>5. CASE ~speedTest
      <3>1. phase' = "probe" /\ queued' = SubSeq(ranked, at + 1, End)
        BY <1>4, <2>5 DEF NextBatch, Starts
      <3>2. Ran(SubSeq(ranked, at + 1, End)) = {ranked[i] : i \in (at + 1)..End}
        BY <1>t, BatchSlice
      <3>3. Ran(queued') = {ranked[i] : i \in (at + 1)..End}
        BY <3>1, <3>2
      <3>4. at \in Nat /\ End \in Nat /\ at <= End
        BY <1>t, EndFacts
      <3>5. ToProbe' = {ranked[i] : i \in 1..End} /\ ToProbe = {ranked[i] : i \in 1..at}
        BY <2>3, <2>5 DEF ToProbe, Taken
      <3>6. \A i \in 1..End : i \in 1..at \/ i \in (at + 1)..End
        BY <3>4
      <3>7. ToProbe' \subseteq ToProbe \cup Ran(queued')
        BY <3>3, <3>5, <3>6
      <3>8. Ran(queued)' = Ran(queued')
        BY DEF Ran
      <3> QED BY <2>2, <2>3, <3>1, <3>7, <3>8 DEF InLine
    <2> QED BY <2>4, <2>5
  <1>5. CASE Returns
    BY <1>5 DEF Returns, InLine, InPool
  <1>6. CASE HandOut
    <2>1. Ran(queued) = {Head(queued)} \cup Ran(Tail(queued))
      BY <1>t, <1>6, HeadAndTail DEF HandOut, TypeOK
    <2>2. /\ queued' = Tail(queued) /\ ~cancelled /\ ~stopped /\ phase \in {"speed", "probe"}
          /\ UNCHANGED <<speedTest, phase, cancelled, ranked, at, kept, stopped, passed>>
      BY <1>6 DEF HandOut
    <2>3. Ran(queued)' = Ran(Tail(queued)) /\ ToProbe' = ToProbe /\ Ips(kept)' = Ips(kept)
      BY <2>2 DEF Ran, Ips, ToProbe, Taken
    <2>4. CASE phase = "speed"
      <3>1. probed' = probed
        BY <1>6, <2>4 DEF HandOut
      <3> QED BY <1>l, <2>2, <2>3, <2>4, <3>1 DEF InLine
    <2>5. CASE phase = "probe"
      <3>1. probed' = probed \cup {Head(queued)}
        BY <1>6, <2>5 DEF HandOut
      <3> QED BY <1>l, <2>1, <2>2, <2>3, <2>5, <3>1 DEF InLine
    <2> QED BY <2>2, <2>4, <2>5
  <1>7. ASSUME NEW ip \in running, Finish(ip) PROVE InLine'
    BY <1>a, <1>7 DEF Finish, results, history
  <1>8. ASSUME NEW r \in sent, Take(r) PROVE InLine'
    <2>1. InPool
      BY DEF IInv, BatchesDisjoint
    <2>2. /\ UNCHANGED <<speedTest, phase, cancelled, ranked, at, queued, probed>>
          /\ kept' = kept \cup {r} /\ stopped' = (stopped \/ Cardinality(kept') >= ValidIPCount)
      BY <1>8 DEF Take
    <2>3. Ips(kept)' = Ips(kept) \cup {r.ip} /\ Ran(queued)' = Ran(queued)
      BY <2>2 DEF Ips, Ran
    <2>4. stopped' => Cardinality(kept') >= ValidIPCount
      <3>1. CASE stopped
        <4>1. Cardinality(kept) >= ValidIPCount
          BY <1>l, <2>1, <3>1 DEF InLine
        <4>2. IsFiniteSet(kept') /\ kept \in SUBSET kept'
          BY <1>t, <2>2, FS_AddElement
        <4>3. /\ Cardinality(kept) <= Cardinality(kept')
              /\ Cardinality(kept) \in Nat /\ Cardinality(kept') \in Nat
          BY <1>t, <4>2, FS_Subset, FS_CardinalityType
        <4> QED BY <4>1, <4>3, Numbers
      <3>2. CASE ~stopped
        BY <2>2, <3>2
      <3> QED BY <3>1, <3>2
    <2>5. CASE phase = "speed"
      <3>1. passed' = passed \cup {r.ip}
        BY <1>8, <2>5 DEF Take
      <3> QED BY <1>l, <2>2, <2>3, <2>4, <2>5, <3>1 DEF InLine
    <2>6. CASE phase = "probe"
      <3>1. passed' = passed
        BY <1>8, <2>6 DEF Take
      <3>2. ToProbe' = ToProbe
        BY <2>2, <3>1 DEF ToProbe, Taken
      <3> QED BY <1>l, <2>2, <2>3, <2>4, <2>6, <3>2 DEF InLine
    <2> QED BY <2>1, <2>5, <2>6 DEF InPool
  <1>9. CASE SpeedFilterEnds
    <2>1. PICK q \in InRankOrder(Ips(kept)) : Starts(q)
      BY <1>9 DEF SpeedFilterEnds
    <2>2. queued' = q /\ Ran(q) = Ips(kept) /\ stopped' = FALSE
      BY <1>t, <2>1, PassedQueue DEF Starts
    <2>3. /\ phase = "speed" /\ phase' = IF kept = {} THEN "next" ELSE "probe"
          /\ UNCHANGED <<speedTest, cancelled, ranked, at, passed, probed>>
      BY <1>9 DEF SpeedFilterEnds, history
    <2>4. cancelled \/ passed \subseteq probed \cup Ips(kept)
      BY <1>l, <2>3 DEF InLine
    <2>5. ToProbe' = passed
      BY <1>l, <2>3 DEF InLine, ToProbe
    <2>6. Ran(queued)' = Ips(kept)
      BY <2>2 DEF Ran
    <2>7. kept = {} => Ips(kept) = {}
      BY DEF Ips
    <2> QED BY <2>2, <2>3, <2>4, <2>5, <2>6, <2>7 DEF InLine
  <1>10. CASE Merge
    <2>1. PICK batch \in Cuts(kept) : valid' \in Cuts(valid \cup batch)
      BY <1>10, MergeFacts
    <2>2. /\ phase = "probe" /\ phase' = "next" /\ Over /\ stopped' = FALSE
          /\ UNCHANGED <<speedTest, cancelled, ranked, at, passed, probed>>
      BY <1>10 DEF Merge, Starts, history
    <2>3. ToProbe' = ToProbe
      BY <2>2 DEF ToProbe, Taken
    <2>4. CASE cancelled
      BY <2>2, <2>4 DEF InLine
    <2>5. CASE ~cancelled /\ queued = <<>>
      <3>1. ToProbe \subseteq probed
        BY <1>l, <2>2, <2>5, EmptyQueue DEF InLine
      <3> QED BY <2>2, <2>3, <3>1 DEF InLine
    <2>6. CASE stopped
      <3>1. Cardinality(kept) >= ValidIPCount
        BY <1>l, <2>2, <2>6 DEF InLine, InPool
      <3>2. IsFiniteSet(batch) /\ Cardinality(batch) = ValidIPCount
        BY <1>t, <3>1, CutFacts
      <3>3. IsFiniteSet(valid \cup batch) /\ batch \in SUBSET (valid \cup batch)
        BY <1>t, <3>2, FS_Union
      <3>4. Cardinality(batch) <= Cardinality(valid \cup batch)
        BY <3>3, FS_Subset
      <3>5. Cardinality(valid \cup batch) \in Nat
        BY <3>3, FS_CardinalityType
      <3>6. Cardinality(valid \cup batch) >= ValidIPCount
        BY <3>2, <3>4, <3>5, Numbers
      <3>7. Cardinality(valid') = ValidIPCount
        BY <2>1, <3>3, <3>6, CutFacts
      <3> QED BY <2>2, <3>7 DEF InLine
    <2> QED BY <2>2, <2>4, <2>5, <2>6 DEF Over
  <1>11. CASE Cancel
    BY <1>a, <1>11 DEF Cancel, pool, results, history
  <1>12. CASE UNCHANGED vars
    BY <1>a, <1>12 DEF vars, pool, results, history
  <1> QED BY <1>1, <1>2, <1>3, <1>4, <1>5, <1>6, <1>7, <1>8, <1>9, <1>10, <1>11, <1>12 DEF Next

-----------------------------------------------------------------------------
(* The results. *)

LEMMA InitInv == Init => IInv
  <1> SUFFICES ASSUME Init PROVE IInv
    OBVIOUS
  <1>1. IsFiniteSet({}) /\ Cardinality({}) = 0
    BY FS_EmptySet
  <1>2. TypeOK
    <2>1. /\ ranked \in Seq(IP) /\ Len(ranked) <= Limit /\ at \in 0..Len(ranked)
          /\ queued \in Seq(IP)
      BY EmptyQueue, Numbers DEF Init
    <2>2. Cardinality(valid) <= ValidIPCount
      BY <1>1, Numbers DEF Init
    <2>3. /\ speedTest \in BOOLEAN /\ cancelled \in BOOLEAN /\ stopped \in BOOLEAN
          /\ cached \subseteq Source /\ phase \in Phase
      BY DEF Init, Phase
    <2> QED BY <2>1, <2>2, <2>3 DEF Init, TypeOK
  <1>3. 1..Len(ranked) = {}
    BY EmptyQueue DEF Init
  <1>4. BatchesDisjoint
    BY <1>3 DEF Init, BatchesDisjoint, InPool
  <1>5. Accounted /\ InLine
    BY <1>1 DEF Init, Accounted, InLine, InPool
  <1> QED BY <1>2, <1>4, <1>5 DEF IInv

LEMMA StepInv == IInv /\ [Next]_vars => IInv'
  BY TypeStep, BatchesStep, AccountedStep, InLineStep DEF IInv

LEMMA ScannerInvariant == Spec => []IInv
  BY InitInv, StepInv, PTL DEF Spec

\* The variables of the scans keep their types: no more candidates than Limit,
\* no more results than ValidIPCount, whatever the sources list and however the
\* workers and their collecting loops interleave.
THEOREM ScannerTypeCorrect == Spec => []TypeOK
  <1>1. IInv => TypeOK
    BY DEF IInv
  <1> QED BY <1>1, ScannerInvariant, PTL

\* Between batches, and so when the scan returns, its results are the fastest
\* of all that its probes found, although each batch was cut before it was
\* merged and cut again.
THEOREM ResultsAreBest == Spec => []BestOfFound
  <1>1. IInv => BestOfFound
    BY DEF IInv, Accounted, BestOfFound
  <1> QED BY <1>1, ScannerInvariant, PTL

\* A scan that nobody cancelled returns fewer results than asked for only after
\* all candidates were taken and all that had to be probed were, for every
\* number of workers and every moment at which a pool of workers stops.
THEOREM NobodyForgotten == Spec => []ShortScanProbedAll
  <1>1. IInv => ShortScanProbedAll
    <2> SUFFICES ASSUME IInv, ReturnsShort PROVE ToProbe \subseteq probed /\ Taken = Ran(ranked)
      BY DEF ShortScanProbedAll
    <2>1. TypeOK /\ InLine /\ IsFiniteSet(valid)
      BY DEF IInv, Accounted
    <2>2. Cardinality(valid) \in Nat
      BY <2>1, FS_CardinalityType
    <2>3. ToProbe \subseteq probed
      BY <2>1, <2>2, Numbers DEF ReturnsShort, InLine
    <2>4. at = Len(ranked)
      BY <2>1, EndFacts DEF ReturnsShort, More
    <2> QED BY <2>3, <2>4 DEF Taken, Ran
  <1> QED BY <1>1, ScannerInvariant, PTL

-----------------------------------------------------------------------------
(* Who has been speed tested. *)

\* What passed the download test is as many addresses as results.
LEMMA PassesCount ==
  ASSUME TypeOK, IsFiniteSet(kept), \A r \in kept : r.latency = 0, Ips(kept) \subseteq passed
  PROVE  Cardinality(kept) <= Cardinality(passed)
  <1> DEFINE f == [r \in kept |-> r.ip]
  <1>1. \A r \in kept : r = [ip |-> r.ip, latency |-> r.latency]
    BY DEF TypeOK, Result
  <1>2. \A r, s \in kept : r.ip = s.ip => r = s
    BY <1>1
  <1>3. \A r \in kept : r.ip \in passed
    BY DEF Ips
  <1>4. f \in Injection(kept, passed)
    BY <1>2, <1>3 DEF Injection, IsInjective
  <1>5. IsFiniteSet(passed)
    BY ListsAssumption, FS_Subset DEF TypeOK
  <1> HIDE DEF f
  <1> QED BY <1>4, <1>5, FS_Injection

LEMMA PassesGrow ==
  ASSUME TypeOK, TypeOK', passed \subseteq passed', Cardinality(passed) >= ValidIPCount
  PROVE  Cardinality(passed') >= ValidIPCount
  <1>1. IsFiniteSet(passed') /\ IsFiniteSet(passed)
    BY ListsAssumption, FS_Subset DEF TypeOK
  <1>2. /\ Cardinality(passed) <= Cardinality(passed')
        /\ Cardinality(passed) \in Nat /\ Cardinality(passed') \in Nat
    BY <1>1, FS_Subset, FS_CardinalityType
  <1> QED BY <1>2, Numbers

LEMMA TestStep ==
  ASSUME WholeBatchesTested, IInv, IInv', TestInv, [Next]_vars PROVE TestInv'
  <1>t. TypeOK /\ TypeOK' /\ IsFiniteSet(kept)
    BY DEF IInv, Accounted
  \* Who has to be tested, in the phases where that is asked.
  <1> DEFINE Untested == IF phase = "speed" THEN Ran(queued) ELSE {}
             Batching == speedTest /\ ~cancelled /\ phase \in {"next", "speed", "probe"}
             Enough == Cardinality(passed) >= ValidIPCount
  <1>b. Batching => Enough \/ Taken \subseteq tested \cup Untested
    BY DEF TestInv
  <1>s. phase = "speed" => /\ \A r \in sent \cup kept : r.latency = 0
                           /\ Ips(kept) \subseteq passed
    BY DEF TestInv
  <1>g. ASSUME passed \subseteq passed', Enough PROVE Enough'
    BY <1>t, <1>g, PassesGrow
  \* Steps that leave the tests alone.
  <1>a. ASSUME UNCHANGED <<speedTest, phase, ranked, at, queued, sent, kept, tested, passed>>,
               cancelled => cancelled'
        PROVE  TestInv'
    <2>1. Taken' = Taken
      BY <1>a DEF Taken
    <2> QED BY <1>a, <2>1 DEF TestInv, Ran, Ips
  <1>1. CASE Scan
    BY <1>1 DEF Scan, TestInv
  <1>2. ASSUME NEW s \in Source, ReadSource(s) PROVE TestInv'
    BY <1>a, <1>2 DEF ReadSource, pool, results, history
  <1>3. CASE RankTCP
    <2>1. phase' \in {"idle", "next"} /\ at' = 0
      BY <1>3 DEF RankTCP, IInv, Accounted
    <2>2. Taken' = {}
      BY <2>1 DEF Taken
    <2> QED BY <2>1, <2>2 DEF TestInv
  <1>4. CASE NextBatch
    <2>1. /\ phase = "next" /\ at' = End
          /\ UNCHANGED <<speedTest, cancelled, ranked, tested, passed>>
          /\ sent' = {} /\ kept' = {}
      BY <1>4 DEF NextBatch, Starts, history
    <2>2. CASE ~ speedTest
      <3>1. phase' = "probe" /\ speedTest' = FALSE
        BY <1>4, <1>t, <2>1, <2>2 DEF NextBatch, TypeOK
      <3> QED BY <3>1 DEF TestInv
    <2>3. CASE speedTest
      <3>1. End <= at + SpeedLimit
        <4>1. at \in Nat /\ Len(ranked) \in Nat
          BY <1>t, EndFacts
        <4>2. BatchSize = Smaller(SpeedLimit, Len(ranked))
          BY <2>3, Numbers DEF WholeBatchesTested, BatchSize, Larger
        <4> QED BY <4>1, <4>2, Numbers DEF End, Smaller
      <3>2. at \in Nat /\ End \in Nat /\ at <= End
        BY <1>t, EndFacts
      <3>3. Smaller(End, at + SpeedLimit) = End
        BY <3>1, <3>2, Numbers DEF Smaller
      <3>4. phase' = "speed" /\ queued' = SubSeq(ranked, at + 1, End)
        BY <1>4, <2>3, <3>3 DEF NextBatch, Starts
      <3>5. Ran(SubSeq(ranked, at + 1, End)) = {ranked[i] : i \in (at + 1)..End}
        BY <1>t, BatchSlice
      <3>6. Ran(queued') = {ranked[i] : i \in (at + 1)..End}
        BY <3>4, <3>5
      <3>7. Taken' = {ranked[i] : i \in 1..End} /\ Taken = {ranked[i] : i \in 1..at}
        BY <2>1 DEF Taken
      <3>8. \A i \in 1..End : i \in 1..at \/ i \in (at + 1)..End
        BY <3>2
      <3>9. Taken' \subseteq Taken \cup Ran(queued')
        BY <3>6, <3>7, <3>8
      <3>10. Batching' => Enough' \/ Taken' \subseteq tested' \cup Ran(queued')
        BY <1>b, <2>1, <3>9
      <3>11. Ran(queued)' = Ran(queued') /\ Ips(kept)' = {}
        BY <2>1 DEF Ran, Ips
      <3> QED BY <2>1, <3>4, <3>10, <3>11 DEF TestInv
    <2> QED BY <2>2, <2>3
  <1>5. CASE Returns
    BY <1>5 DEF Returns, TestInv
  <1>6. CASE HandOut
    <2>1. Ran(queued) = {Head(queued)} \cup Ran(Tail(queued))
      BY <1>t, <1>6, HeadAndTail DEF HandOut, TypeOK
    <2>2. /\ queued' = Tail(queued)
          /\ UNCHANGED <<speedTest, phase, cancelled, ranked, at, sent, kept, passed>>
      BY <1>6 DEF HandOut
    <2>3. Ran(queued)' = Ran(Tail(queued)) /\ Taken' = Taken /\ Ips(kept)' = Ips(kept)
      BY <2>2 DEF Ran, Ips, Taken
    <2>4. CASE phase = "speed"
      <3>1. tested' = tested \cup {Head(queued)}
        BY <1>6, <2>4 DEF HandOut
      <3>2. Batching' => Enough' \/ Taken' \subseteq tested' \cup Ran(queued)'
        BY <1>b, <2>1, <2>2, <2>3, <2>4, <3>1
      <3> QED BY <1>s, <2>2, <2>3, <2>4, <3>2 DEF TestInv
    <2>5. CASE phase # "speed"
      <3>1. tested' = tested
        BY <1>6, <2>5 DEF HandOut
      <3> QED BY <1>b, <2>2, <2>3, <2>5, <3>1 DEF TestInv
    <2> QED BY <2>4, <2>5
  <1>7. ASSUME NEW ip \in running, Finish(ip) PROVE TestInv'
    <2>1. UNCHANGED <<speedTest, phase, cancelled, ranked, at, queued, kept, tested, passed>>
      BY <1>7 DEF Finish, history
    <2>2. phase = "speed" => \A r \in sent' : r.latency = 0
      BY <1>7, <1>s DEF Finish
    <2>3. Taken' = Taken /\ Ran(queued)' = Ran(queued) /\ Ips(kept)' = Ips(kept)
      BY <2>1 DEF Taken, Ran, Ips
    <2> QED BY <1>b, <1>s, <2>1, <2>2, <2>3 DEF TestInv
  <1>8. ASSUME NEW r \in sent, Take(r) PROVE TestInv'
    <2>1. /\ UNCHANGED <<speedTest, phase, cancelled, ranked, at, queued, tested>>
          /\ sent' = sent \ {r} /\ kept' = kept \cup {r}
      BY <1>8 DEF Take
    <2>2. Taken' = Taken /\ Ran(queued)' = Ran(queued) /\ Ips(kept)' = Ips(kept) \cup {r.ip}
      BY <2>1 DEF Taken, Ran, Ips
    <2>3. phase = "speed" => passed' = passed \cup {r.ip}
      BY <1>8 DEF Take
    <2>4. passed \subseteq passed'
      BY <1>8 DEF Take
    <2>5. Batching' => Enough' \/ Taken' \subseteq tested' \cup Untested'
      BY <1>b, <1>g, <2>1, <2>2, <2>4
    <2>6. phase' = "speed" => /\ \A q \in sent' \cup kept' : q.latency = 0
                              /\ Ips(kept)' \subseteq passed'
      BY <1>s, <2>1, <2>2, <2>3
    <2> QED BY <2>5, <2>6 DEF TestInv
  <1>9. CASE SpeedFilterEnds
    <2>1. /\ phase = "speed" /\ Over /\ phase' \in {"next", "probe"}
          /\ UNCHANGED <<speedTest, cancelled, ranked, at, tested, passed>>
      BY <1>9 DEF SpeedFilterEnds, history
    <2>2. Taken' = Taken
      BY <2>1 DEF Taken
    <2>3. stopped => Enough
      <3>1. SUFFICES ASSUME stopped PROVE Enough
        OBVIOUS
      <3>2. Cardinality(kept) >= ValidIPCount
        BY <2>1, <3>1 DEF IInv, InLine, InPool
      <3>3. Cardinality(kept) <= Cardinality(passed)
        BY <1>s, <1>t, <2>1, PassesCount
      <3>4. IsFiniteSet(passed)
        BY <1>t, ListsAssumption, FS_Subset DEF TypeOK
      <3>5. Cardinality(kept) \in Nat /\ Cardinality(passed) \in Nat
        BY <1>t, <3>4, FS_CardinalityType
      <3> QED BY <3>2, <3>3, <3>5, Numbers
    <2>4. ~ cancelled /\ ~ stopped => Ran(queued) = {}
      BY <2>1, EmptyQueue DEF Over
    <2>5. Batching' => Enough \/ Taken \subseteq tested
      BY <1>b, <2>1, <2>3, <2>4
    <2> QED BY <2>1, <2>2, <2>5 DEF TestInv
  <1>10. CASE Merge
    <2>1. /\ phase = "probe" /\ phase' = "next"
          /\ UNCHANGED <<speedTest, cancelled, ranked, at, tested, passed>>
      BY <1>10 DEF Merge, history
    <2>2. Taken' = Taken
      BY <2>1 DEF Taken
    <2> QED BY <1>b, <2>1, <2>2 DEF TestInv
  <1>11. CASE Cancel
    BY <1>a, <1>11 DEF Cancel, pool, results, history
  <1>12. CASE UNCHANGED vars
    BY <1>a, <1>12 DEF vars, pool, results, history
  <1> QED BY <1>1, <1>2, <1>3, <1>4, <1>5, <1>6, <1>7, <1>8, <1>9, <1>10, <1>11, <1>12 DEF Next

\* If the download test takes whole batches (WholeBatchesTested), a scan that nobody
\* cancelled and that returns short leaves a candidate without its download test only
\* if as many as it was asked for passed the test, and some of those failed their
\* probes: of the two ways in which the code breaks the README's promise this is the
\* only one left.
THEOREM UntestedOnlyAfterEnough ==
  ASSUME WholeBatchesTested
  PROVE  Spec => [](EveryoneTested \/ Cardinality(passed) >= ValidIPCount)
  <1>1. Init => TestInv
    BY DEF Init, TestInv
  <1>2. IInv /\ IInv' /\ TestInv /\ [Next]_vars => TestInv'
    BY TestStep
  <1>3. IInv /\ TestInv => EveryoneTested \/ Cardinality(passed) >= ValidIPCount
    <2> SUFFICES ASSUME IInv, TestInv, ReturnsShort, speedTest,
                        ~ (Cardinality(passed) >= ValidIPCount)
                 PROVE  Ran(ranked) \subseteq tested
      BY DEF EveryoneTested
    <2>1. phase = "next" /\ ~ cancelled
      BY DEF ReturnsShort
    <2>2. Taken \subseteq tested
      BY <2>1 DEF TestInv
    <2>3. TypeOK /\ IsFiniteSet(valid)
      BY DEF IInv, Accounted
    <2>4. Cardinality(valid) \in Nat
      BY <2>3, FS_CardinalityType
    <2>5. at = Len(ranked)
      BY <2>3, <2>4, EndFacts, Numbers DEF ReturnsShort, More
    <2> QED BY <2>2, <2>5 DEF Taken, Ran
  <1> QED BY <1>1, <1>2, <1>3, ScannerInvariant, PTL DEF Spec
=============================================================================
