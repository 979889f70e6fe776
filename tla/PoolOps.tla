------------------------------- MODULE PoolOps -------------------------------
(***************************************************************************)
(* The address pools of cfnat and the selections app.go makes from them.   *)
(*                                                                         *)
(* A pool ([]scanner.Result) holds each address once and is sorted by      *)
(* latency, then by the text of the address, whenever a.mu is free.  It is *)
(* therefore a function from addresses to latency levels, where Absent     *)
(* stands for "not in the pool", and the order is derived.  Addresses are  *)
(* natural numbers, ordered as their texts are.                            *)
(***************************************************************************)
EXTENDS Integers, FiniteSets

CONSTANTS
    IP,             \* the addresses that take part
    MaxLatency      \* measured latencies are 1..MaxLatency

ASSUME IPAssumption == IP \subseteq Nat /\ IsFiniteSet(IP)
ASSUME LatencyAssumption == MaxLatency \in Nat \ {0}

Absent == 0
Measured == 1..MaxLatency
Unprobed == MaxLatency + 1      \* 1<<61: a pinned address nobody probed yet
Failing == MaxLatency + 2       \* 1<<62: in the pool, but its last probe failed
Level == 0..Failing

Pool == [IP -> Level]
EmptyPool == [i \in IP |-> Absent]

In(p) == {i \in IP : p[i] # Absent}
Size(p) == Cardinality(In(p))

\* sortResults: by latency, then by address.
Before(p, i, j) == p[i] < p[j] \/ (p[i] = p[j] /\ i < j)

\* The members of S that precede i in the pool.
Ahead(p, S, i) == {j \in S : Before(p, j, i)}

Only(p, S) == [i \in IP |-> IF i \in S THEN p[i] ELSE Absent]
Without(p, S) == [i \in IP |-> IF i \in S THEN Absent ELSE p[i]]
With(p, i, level) == [p EXCEPT ![i] = level]

\* First p's entry, then q's for the addresses p does not have.
Union(p, q) == [i \in IP |-> IF p[i] # Absent THEN p[i] ELSE q[i]]

\* The n best entries: newPool[:size] after sortResults.
Top(p, n) == Only(p, {i \in In(p) : Cardinality(Ahead(p, In(p), i)) < n})

Best(p) == CHOOSE i \in In(p) : Ahead(p, In(p), i) = {}
Worst(p) == CHOOSE i \in In(p) : \A j \in In(p) : j = i \/ Before(p, j, i)

\* Everything of `first` that fits, then `second` until the pool is full.
Fill(first, second, size) ==
    LET kept == Top(first, size)
    IN  Union(kept, Top(Without(second, In(kept)), size - Size(kept)))

\* selectProgressPool: a batch of the scanner is merged before the healthy
\* addresses that are already forwarded.
SelectProgressAll(healthy, scanned, size) == Union(scanned, healthy)
SelectProgress(healthy, scanned, size) == Fill(scanned, healthy, size)

\* selectPoolAfterScan: only a health rescan whose best address is not faster
\* than the best healthy one keeps what is there.
SelectAfterScan(reason, healthy, scanned, size) ==
    LET fresh == Top(scanned, size)
        faster == fresh[Best(fresh)] < healthy[Best(healthy)]
    IN  IF reason # "health" \/ In(healthy) = {} \/ faster
        THEN fresh
        ELSE Fill(healthy, fresh, size)

\* The position (1..n) of the first n members of S in pool order, 0 for all
\* other addresses: a list of addresses without its texts.
FirstOf(p, S, n) ==
    [i \in IP |->
        LET position == Cardinality(Ahead(p, S \cap In(p), i)) + 1
        IN  IF i \in S \cap In(p) /\ position <= n THEN position ELSE 0]

\* sameResultIPs: the same addresses in the same order.
SameOrder(p, q) ==
    /\ In(p) = In(q)
    /\ \A i, j \in In(p) : Before(p, i, j) <=> Before(q, i, j)

\* checkAndPrunePool calls a pool reordered unless the new one is a prefix of it.
PrefixOf(p, q) ==
    \A i \in In(p) :
        i \in In(q) /\ Cardinality(Ahead(p, In(p), i)) = Cardinality(Ahead(q, In(q), i))

=============================================================================
