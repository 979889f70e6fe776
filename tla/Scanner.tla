------------------------------ MODULE Scanner ------------------------------
(***************************************************************************)
(* The scans of Scanner.ScanProgress, one after the other, and what they   *)
(* call.  The candidates that answer TCP are taken in batches; a batch     *)
(* goes through the download test (filterByDownloadSpeed, when it is on)   *)
(* and the probes (probeCandidates), each a pool of workers fed by one     *)
(* goroutine, and what passes is merged into the results and handed to the *)
(* caller.  Both pools stop early once enough has passed, and the context  *)
(* of the scan may be cancelled at any time (pause, time limit, shutdown). *)
(*                                                                         *)
(* Addresses are model values, latencies small numbers, a channel is the   *)
(* set of what is in it.  A test that fails sends nothing here: of the     *)
(* failures only the counters in the log take notice.                      *)
(***************************************************************************)
EXTENDS Naturals, Sequences, FiniteSets

CONSTANTS
    IP,               \* addresses
    Source,           \* ip_sources
    Listed,           \* what each source lists
    Blacklist,        \* addresses ip_blacklist excludes
    Limit,            \* max_candidates
    ValidIPCount,     \* valid_ip_count
    BatchFloor,       \* max(10 * ValidIPCount, 100) in the code
    SpeedLimit,       \* speed_test.max_candidates
    SpeedWorkers,     \* speed_test.concurrency
    ProbeWorkers,     \* scan_probe_concurrency
    MaxLatency        \* bound of the model: latencies of an answer

ASSUME ListsAssumption ==
    /\ IsFiniteSet(IP) /\ IsFiniteSet(Source)
    /\ Listed \in [Source -> SUBSET IP] /\ Blacklist \subseteq IP
ASSUME NumbersAssumption ==        \* Config.Validate
    {Limit, ValidIPCount, BatchFloor, SpeedLimit, SpeedWorkers, ProbeWorkers, MaxLatency}
        \subseteq Nat \ {0}

VARIABLES
    speedTest,    \* speed_test.enabled
    cached,       \* sources with a copy in source_cache_dir
    phase,        \* where ScanProgress is
    cancelled,    \* the context of the scan is cancelled
    unread,       \* sources yet to be read
    prefixes,     \* addresses of the sources read so far
    ranked,       \* candidates that answered, fastest first
    at,           \* how many of them earlier batches took
    queued,       \* candidates of the batch not handed to a worker yet
    running,      \* those a worker is busy with
    sent,         \* results in the channel
    kept,         \* results the collecting loop took from it
    stopped,      \* the loop cancelled the workers: enough passed
    valid,        \* the results of the scan
    seenValid,    \* addresses that ever were among them
    tested, passed, probed, found   \* history of the scan: addresses that were
                  \* speed tested, passed that, were probed; results of probes

sources == <<cached, unread, prefixes>>
pool == <<queued, running, sent, kept, stopped>>
results == <<valid, seenValid>>
history == <<tested, passed, probed, found>>
vars == <<speedTest, sources, phase, cancelled, ranked, at, pool, results, history>>

Phase == {"idle", "read", "next", "speed", "probe"}
Result == [ip : IP, latency : 0..MaxLatency]    \* 0: of the download test

TypeOK ==
    /\ speedTest \in BOOLEAN /\ cancelled \in BOOLEAN /\ stopped \in BOOLEAN
    /\ cached \subseteq Source /\ unread \subseteq Source
    /\ phase \in Phase /\ prefixes \subseteq IP
    /\ ranked \in Seq(IP) /\ Len(ranked) <= Limit /\ at \in 0..Len(ranked)
    /\ queued \in Seq(IP) /\ running \subseteq IP
    /\ sent \subseteq Result /\ kept \subseteq Result
    /\ valid \subseteq Result /\ Cardinality(valid) <= ValidIPCount
    /\ seenValid \subseteq IP /\ found \subseteq Result
    /\ tested \subseteq IP /\ passed \subseteq IP /\ probed \subseteq IP

Init ==
    /\ speedTest \in BOOLEAN /\ cached \in SUBSET Source
    /\ phase = "idle" /\ cancelled = FALSE /\ unread = {}
    /\ prefixes = {} /\ ranked = <<>> /\ at = 0
    /\ queued = <<>> /\ running = {} /\ sent = {} /\ kept = {} /\ stopped = FALSE
    /\ valid = {} /\ seenValid = {}
    /\ tested = {} /\ passed = {} /\ probed = {} /\ found = {}

(***************************************************************************)
(* The beginning of ScanProgress: sources, candidates, TCP ranking.        *)
(***************************************************************************)
Smaller(a, b) == IF a < b THEN a ELSE b
Larger(a, b) == IF a > b THEN a ELSE b
Ran(s) == {s[i] : i \in 1..Len(s)}
Ips(S) == {r.ip : r \in S}

Scan ==
    /\ phase = "idle"
    /\ phase' = "read" /\ unread' = Source /\ cancelled' = FALSE
    /\ ranked' = <<>> /\ at' = 0
    /\ valid' = {} /\ seenValid' = {}
    /\ tested' = {} /\ passed' = {} /\ probed' = {} /\ found' = {}
    /\ UNCHANGED <<speedTest, cached, prefixes, pool>>

\* readSource: a copy that arrives complete goes to the cache, which stands in
\* for a source that does not answer; a source without either is left out.
ReadSource(s) ==
    /\ phase = "read" /\ s \in unread
    /\ unread' = unread \ {s}
    /\ \/ ~cancelled /\ cached' = cached \cup {s} /\ prefixes' = prefixes \cup Listed[s]
       \/ s \in cached /\ prefixes' = prefixes \cup Listed[s] /\ UNCHANGED cached
       \/ UNCHANGED <<cached, prefixes>>
    /\ UNCHANGED <<speedTest, phase, cancelled, ranked, at, pool, results, history>>

\* generateCandidates: the first or random ones, no more than Limit; then
\* filterBlacklist drops what it excludes.
Candidates == {C \in SUBSET prefixes : Cardinality(C) <= Limit}
Allowed(C) == C \ Blacklist

\* The orders in which some of the candidates answered.
Ranked(C) == UNION {{s \in [1..Cardinality(R) -> R] : Ran(s) = R} : R \in SUBSET C}

\* Without a candidate that answers ScanProgress gives up.
RankTCP ==
    /\ phase = "read" /\ unread = {}
    /\ \E C \in Candidates : ranked' \in Ranked(Allowed(C))
    /\ phase' = IF ranked' = <<>> THEN "idle" ELSE "next"
    /\ prefixes' = {}
    /\ UNCHANGED <<speedTest, cached, unread, cancelled, at, pool, results, history>>

(***************************************************************************)
(* Batches.                                                                *)
(***************************************************************************)
BatchSize == Smaller(IF speedTest THEN Larger(BatchFloor, SpeedLimit) ELSE BatchFloor,
                     Len(ranked))
End == Smaller(at + BatchSize, Len(ranked))
More == at < Len(ranked) /\ Cardinality(valid) < ValidIPCount

\* A pool of workers starts on the addresses q.
Starts(q) ==
    /\ queued' = q /\ running' = {} /\ sent' = {} /\ kept' = {} /\ stopped' = FALSE

NextBatch ==
    /\ phase = "next" /\ More
    /\ at' = End
    /\ IF speedTest
       THEN phase' = "speed" /\ Starts(SubSeq(ranked, at + 1, Smaller(End, at + SpeedLimit)))
       ELSE phase' = "probe" /\ Starts(SubSeq(ranked, at + 1, End))
    /\ UNCHANGED <<speedTest, sources, cancelled, ranked, results, history>>

\* The end: with the results, or with an error when there are none or the
\* context is cancelled.
Returns ==
    /\ phase = "next" /\ ~More
    /\ phase' = "idle"
    /\ UNCHANGED <<speedTest, sources, cancelled, ranked, at, pool, results, history>>

(***************************************************************************)
(* Workers.  A context cancelled, the feeding goroutine stops; what it     *)
(* still hands out in that moment fails at once.                           *)
(***************************************************************************)
Workers == IF phase = "speed" THEN SpeedWorkers ELSE ProbeWorkers

HandOut ==
    /\ phase \in {"speed", "probe"} /\ queued # <<>> /\ ~stopped /\ ~cancelled
    /\ Cardinality(running) < Workers
    /\ running' = running \cup {Head(queued)}
    /\ queued' = Tail(queued)
    /\ IF phase = "speed" THEN tested' = tested \cup {Head(queued)} /\ UNCHANGED probed
                          ELSE probed' = probed \cup {Head(queued)} /\ UNCHANGED tested
    /\ UNCHANGED <<speedTest, sources, phase, cancelled, ranked, at, sent, kept, stopped,
                   results, passed, found>>

\* ip's test or probe ends: with a result that counts (for a probe a latency),
\* or without one: failed, too slow, cancelled.
Finish(ip) ==
    /\ ip \in running
    /\ running' = running \ {ip}
    /\ \/ UNCHANGED sent
       \/ phase = "speed" /\ sent' = sent \cup {[ip |-> ip, latency |-> 0]}
       \/ phase = "probe" /\ \E l \in 1..MaxLatency :
                               sent' = sent \cup {[ip |-> ip, latency |-> l]}
    /\ UNCHANGED <<speedTest, sources, phase, cancelled, ranked, at, queued, kept, stopped,
                   results, history>>

TakeOneEarly(r) ==
    /\ r \in sent
    /\ sent' = sent \ {r} /\ kept' = kept \cup {r}
    /\ stopped' = (stopped \/ Cardinality(kept') >= ValidIPCount - 1)
    /\ IF phase = "speed" THEN passed' = passed \cup {r.ip} /\ UNCHANGED found
                          ELSE found' = found \cup {r} /\ UNCHANGED passed
    /\ UNCHANGED <<speedTest, sources, phase, cancelled, ranked, at, queued, running,
                   results, tested, probed>>
\* The collecting loop: once ValidIPCount passed, it cancels the workers, and
\* goes on until they are done.
Take(r) ==
    /\ r \in sent
    /\ sent' = sent \ {r} /\ kept' = kept \cup {r}
    /\ stopped' = (stopped \/ Cardinality(kept') >= ValidIPCount)
    /\ IF phase = "speed" THEN passed' = passed \cup {r.ip} /\ UNCHANGED found
                          ELSE found' = found \cup {r} /\ UNCHANGED passed
    /\ UNCHANGED <<speedTest, sources, phase, cancelled, ranked, at, queued, running,
                   results, tested, probed>>

OverWhenEmpty == queued = <<>> /\ running = {} /\ sent = {}
Over == (queued = <<>> \/ stopped \/ cancelled) /\ running = {} /\ sent = {}

InRankOrder(S) ==
    {q \in [1..Cardinality(S) -> S] :
        /\ Ran(q) = S
        /\ \A i, j \in DOMAIN q : i < j =>
              \E k, l \in 1..Len(ranked) : k < l /\ ranked[k] = q[i] /\ ranked[l] = q[j]}

\* What passed the download test goes on to the probes in the order of its TCP
\* latency; if nothing did, the batch is done.
SpeedFilterEnds ==
    /\ phase = "speed" /\ Over
    /\ phase' = IF kept = {} THEN "next" ELSE "probe"
    /\ \E q \in InRankOrder(Ips(kept)) : Starts(q)
    /\ UNCHANGED <<speedTest, sources, cancelled, ranked, at, results, history>>

CutsAnywhere(S) == {T \in SUBSET S : Cardinality(T) = Smaller(Cardinality(S), ValidIPCount)}
CutsUnlimited(S) == {S}
\* Sorting by latency and cutting to ValidIPCount: ties end up in any order.
Cuts(S) == {T \in SUBSET S : /\ Cardinality(T) = Smaller(Cardinality(S), ValidIPCount)
                             /\ \A t \in T, s \in S \ T : t.latency <= s.latency}

\* The results of the batch are cut, merged with those of the scan, cut again
\* and handed to the caller.
Merge ==
    /\ phase = "probe" /\ Over
    /\ phase' = "next"
    /\ \E batch \in Cuts(kept) :
         LET new == {r \in batch : r.ip \notin seenValid} IN
           /\ seenValid' = seenValid \cup Ips(new)
           /\ valid' \in Cuts(valid \cup new)
    /\ Starts(<<>>)
    /\ UNCHANGED <<speedTest, sources, cancelled, ranked, at, history>>

Cancel ==
    /\ phase # "idle" /\ ~cancelled
    /\ cancelled' = TRUE
    /\ UNCHANGED <<speedTest, sources, phase, ranked, at, pool, results, history>>

(***************************************************************************)
Next == \/ Scan \/ RankTCP \/ NextBatch \/ Returns \/ HandOut
        \/ SpeedFilterEnds \/ Merge \/ Cancel
        \/ \E s \in Source : ReadSource(s)
        \/ \E ip \in running : Finish(ip)
        \/ \E r \in sent : Take(r)

Spec == Init /\ [][Next]_vars

\* Dials, requests and tests have time limits, and goroutines go on.  Nothing
\* is asked of the callers: scans need not begin, nor be cancelled.
Fairness ==
    /\ WF_vars(RankTCP \/ NextBatch \/ Returns \/ SpeedFilterEnds \/ Merge)
    /\ WF_vars(HandOut)
    /\ \A s \in Source : WF_vars(ReadSource(s))
    /\ WF_vars(\E ip \in running : Finish(ip))
    /\ WF_vars(\E r \in sent : Take(r))

FairSpec == Spec /\ Fairness

(***************************************************************************)
(* Properties.                                                             *)
(***************************************************************************)

\* Cut twice, per batch and per scan, the results of a scan still are the
\* fastest of all that a probe found in it (ProgressFunc, README: 合併進健康池).
BestOfFound ==
    phase = "next" =>
        \A r \in found \ valid :
            /\ Cardinality(valid) = ValidIPCount
            /\ \A v \in valid : v.latency <= r.latency

\* The scan is about to return fewer than it was asked for, though nobody
\* cancelled it.
ReturnsShort ==
    phase = "next" /\ ~More /\ ~cancelled /\ Cardinality(valid) < ValidIPCount

\* The candidates of the batches so far, and which of them are to be probed.
Taken == {ranked[i] : i \in 1..at}
ToProbe == IF speedTest THEN passed ELSE Taken

\* Then no address was forgotten when a pool of workers stopped early: all that
\* passed the download test were probed, or without that test all candidates.
ShortScanProbedAll ==
    ReturnsShort => ToProbe \subseteq probed /\ Taken = Ran(ranked)

\* And every candidate was speed tested, as the README has it: a batch without
\* enough passes is followed by the next candidates.  (The code skips those
\* beyond SpeedLimit in their batch, and those left when a batch stopped early.)
EveryoneTested == ReturnsShort /\ speedTest => Ran(ranked) \subseteq tested

\* Every scan ends, cancelled or not, and its goroutines with it.
ScansEnd == phase = "read" ~> phase = "idle"

(***************************************************************************)
(* The inductive strengthening the proofs need.                            *)
(***************************************************************************)
InPool == phase \in {"speed", "probe"}
InHand == Ran(queued) \cup running \cup Ips(sent) \cup Ips(kept)

\* Each candidate is in one batch, and no batch holds an earlier result.
BatchesDisjoint ==
    /\ \A i, j \in 1..Len(ranked) : ranked[i] = ranked[j] => i = j
    /\ seenValid \subseteq Taken
    /\ InPool => InHand \subseteq Taken /\ InHand \cap seenValid = {}
    /\ ~InPool => running = {} /\ sent = {}

\* What the probes found is among the results or about to be merged, or it was
\* cut off for faster ones.
Accounted ==
    /\ IsFiniteSet(valid) /\ IsFiniteSet(kept)
    /\ phase = "read" => valid = {} /\ found = {} /\ seenValid = {} /\ at = 0 /\ passed = {}
    /\ InPool => Cardinality(valid) < ValidIPCount
    /\ phase = "speed" => found = valid
    /\ phase = "probe" => found = valid \cup kept
    /\ phase = "next" => valid \subseteq found /\ BestOfFound

\* Who still has to be probed is in line, unless enough passed or the scan is
\* cancelled.
InLine ==
    /\ phase = "speed" => speedTest
    /\ phase = "speed" => cancelled \/ passed \subseteq probed \cup Ips(kept)
    /\ stopped /\ InPool => Cardinality(kept) >= ValidIPCount
    /\ phase = "probe" => cancelled \/ ToProbe \subseteq probed \cup Ran(queued)
    /\ phase = "next" => \/ cancelled
                         \/ Cardinality(valid) = ValidIPCount
                         \/ ToProbe \subseteq probed

IInv == TypeOK /\ BatchesDisjoint /\ Accounted /\ InLine

\* For EveryoneTested: if the download test takes whole batches, who was taken and is
\* not tested yet is in line, unless enough passed or the scan is cancelled.
WholeBatchesTested == BatchFloor <= SpeedLimit
TestInv ==
    /\ phase = "speed" => /\ \A r \in sent \cup kept : r.latency = 0
                          /\ Ips(kept) \subseteq passed
    /\ speedTest /\ ~cancelled /\ phase \in {"next", "speed", "probe"} =>
          \/ Cardinality(passed) >= ValidIPCount
          \/ Taken \subseteq tested \cup (IF phase = "speed" THEN Ran(queued) ELSE {})
=============================================================================
