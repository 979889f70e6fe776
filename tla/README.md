# TLA+ verification of cfnat-linux

cfnat looks for the Cloudflare addresses with the lowest latency, forwards TCP
connections to the best of them and publishes them as DNS records.  The modules
here model the parts of it where things go wrong: what happens to the *forward
pool* while scans, health rounds, recovery rounds, configuration changes and DNS
updates work on it at the same time; how a scan finds its results; who rewrites the
address lists of the configuration over whom; how a change of state reaches the file
and the open event streams; and what the Shodan manager does to its files.

    tlc -config PoolMaintain.cfg MCForwardPool.tla   # any of the runs below
    tlapm ForwardPool_proofs.tla                     # any of the *_proofs modules

## 1. The system

| part (file) | state | operations | hard parts |
|---|---|---|---|
| App (`internal/app/app.go`) | `pool`, `recovery` with `recoveryAt`/`recoveryOK`, `failures`, `pinnedEligible`, `state`; all under `a.mu`; `scanMu` makes scans exclusive | `rescan`, `applyScanProgress`, `checkAndPrunePool`, `checkRecoveryPool`, `refreshPinnedPool`, `applyBlacklistNow`, `syncDNS`, speed tests | three kinds of goroutines; decisions made in one critical section and applied in another; publication after the unlock |
| Scanner (`internal/scanner`) | none between calls | `ScanProgress` (batches, a callback per batch), `ProbeWithMode`, `DownloadSpeed` | worker pools, early cancellation, limits |
| DNS client (`internal/cloudflare`) | none; the records live at Cloudflare | `Sync` = list, create, delete | requests that fail half way or after they took effect; two callers |
| Proxy (`internal/proxy`) | target list and a flag, both atomic | `Update`, `Toggle`, accept loop with fallback over targets | updates arrive out of order |
| Web panel (`internal/app/web.go`) | none | scan, pause, lists, configuration, event stream | runs on goroutines of its own beside everything else |
| Configuration (`internal/config`) | the JSON file, `a.cfg` | `Load`, `Set`, `Migrate`, `Validate`, exclusive lists | read-modify-write without a lock |
| State and events (`app.go`, `web.go`) | state file, `eventSeq`, a condition variable | `saveState`, `waitStateChange`, `handleEvents` | write order, missed wake-ups |
| Shodan manager (`internal/shodan`) | profiles, status and result files | fetches, schedules, profile edits | stale writes, a status nobody resets |
| Update check, scripts, `main` | - | - | service management |

**How they interact.**  `Run` starts the Web server, the proxy, one goroutine for
the first scan and the `maintain` loop.  The loop serves one ticker at a time: a
*monitor tick* probes the pool (`checkAndPrunePool`) and then the recovery pool
(`checkRecoveryPool`), syncs DNS if that is asked for, and calls `rescan("health")`
when too few addresses are healthy; a *retry tick* rescans when the pool is empty; a
*scheduled tick* rescans anyway.  A Web request may start a scan in a goroutine of
its own, pause scans, or save lists.  A scan calls back for every batch of valid
addresses and installs it in the pool at once.  An address whose probes fail
`health_failures` times moves to the recovery pool, waits `recovery_cooldown` and
has to answer `recovery_successes` probes in a row before it returns.  Every change
of the pool is handed to the proxy after `a.mu` was released.

**What makes it correct.**  A cooling address is not forwarded to and comes back only
when it earned it; the pool keeps within `pool_size`; pinned addresses are not pushed
out by scans; the proxy forwards to the pool; an empty pool is always scanned for
again and the process survives; DNS follows the pool, is never emptied and never loses
the owner's records; a blacklisted address disappears from pool and DNS.  Not all of this
is so: section 3 says what the code does not keep.  The list of everything that is hard to
test, line by line, is `hazards` in PROJECT.json.

## 2. The modules

    PoolOps            pools and the selections made from them
      ForwardPool      App: scans, rounds, handlers, DNS decisions, publication
        MCForwardPool  instances for TLC
    Scanner            ScanProgress: sources, batches, workers, merging
      MCScanner
    DNSCall            what calls that publish addresses promise (abstract)
      DNSSync          cloudflare.Client.Sync against the zone
        MCDNSSync
    AddressBook        what the address lists promise (abstract)
      AddressLists     the lists in memory and on disk, and all who change them
        MCAddressLists
    StatusFeed         state file, switches, event streams
      MCStatusFeed
    ShodanManager      profiles, fetches and schedules of the Shodan panel
      MCShodanManager
    PoolOps_proofs, ForwardPool_proofs, ForwardPoolSafety_proofs, Scanner_proofs,
    DNSSync_proofs, AddressLists_proofs, StatusFeed_proofs, ShodanManager_proofs

### PoolOps

A pool holds each address once and is sorted by latency and address whenever `a.mu` is
free.  It is therefore a function from addresses to latency levels (0: not in the pool),
and the order is derived (`Before`).  Two levels stand for the synthetic latencies
`1<<61` (pinned, not probed) and `1<<62` (in the pool, last probe failed), which sort
last and never count as healthy.  `SelectProgress`, `SelectAfterScan`, `FirstOf`,
`SameOrder`, `PrefixOf` are the pure functions of `app.go` over such pools.

### ForwardPool

One action is one critical section of `a.mu`, one probe answer, one `proxy.Update` or
one half of a DNS call.  `pc` says where each goroutine is, `out` holds the pool that it
computed and has yet to install or publish, `todo` the addresses it still probes, `scan`
and `round` the locals of `rescan` and of the current maintain round.

| code | actions |
|---|---|
| `rescan` | `ScanBegins` (pause check, TryLock, recovery reset for Web scans), `Eligibility`, `PinProbe`, `MergePinned`, `ScanBase`, the batches, `ScanFails` or `FinalFilter`, `NothingUsable` or `FinalSelect`, `FinalInstall`, `ScanFinish`, `SyncBegins`, `SyncReturns` |
| `applyScanProgress` | `ProgressFilter`, `ProgressSelect`, `ProgressInstall`, publication |
| `checkAndPrunePool` | `MonitorTick`, `ProbeFails`, `ProbeSucceeds`, `Prune` (with `observePinnedCoolingLocked`), publication |
| `checkRecoveryPool` | `RecoverBegins`, `ReprobeFails`, `ReprobeSucceeds`, `NoneRecovered`, `AdmitBegins`, `Admit` (one candidate each), `AdmitEnds`, publication |
| rest of the monitor tick | `Decide`, `Judge` |
| `handleCFNatConfig` | `SaveLists`, `Eligibility`, `PinProbe`, `MergePinned`, `ApplyBlacklist`, publication, `SyncBegins`, `SyncReturns` |
| service manager | `Restart` |

What the model leaves to chance: probe answers and latencies, what a scanner batch
contains, when a cooldown, a recovery window or the latency sync interval is over
(`CooldownElapses`, `expired`, `due`), whether Cloudflare answers, when a probe
deadline cuts a round short.

Abstractions, all of them:

- the pause check and `scanMu.TryLock` are one step, and so are the two filters of scan
  results (both read under `a.mu`; nothing happens between them that a scan may see);
- the admission of recovered addresses is one critical section in several steps:
  `MuFree` keeps everybody else out, and also holds `a.mu` for ever after a panic;
- `post_pool_speed_test` is off and `force_test_list` empty; the configuration on disk is
  the one in memory; "clear all lists" is `SaveLists` with two empty lists;
- results of a scan only grow: `valid_ip_count` is not smaller than the number of
  addresses, so the scanner never drops an earlier result for a faster one;
- failure and success counts stop at the limits they are compared with;
- a recovery window holds at most `WindowSamples` observations (a bound of the model);
- `state.Targets` is the set of healthy addresses: in the code its addresses are always
  those of the pool; latencies shown to users, status strings and counters are left out;
- slices are values: that `applyBlacklistNow` filters `a.pool` in place is not modelled;
- Cloudflare's part of a sync is one step here and DNSSync's subject, which implements DNSCall;
- the web server recovers panics of its own handlers, while a scan of `handleCFNatScan`
  runs in a plain goroutine: its panic ends the process like any other.

### DNSSync

The zone is a set of records with an owner (the marker comment or the user).  Goroutines
inside `Sync` list, create, delete, one request a step; each request may fail with or
without having taken effect.  Creations and deletions go over Go maps: their order is
free.  Cloudflare (external) gives out fresh identifiers and refuses identical records.
No lock keeps two goroutines from being inside `Sync` at once.  What each of them may rely on
is therefore a matter of what the others did since it listed the records: `gone` and `come`
are the addresses that others deleted and created since then (history: no guard reads them).

DNSCall is the abstract specification of such calls, without records, identifiers or the answer
to a list request: a call adds wanted addresses, removes unwanted ones only when all wanted are
there or were taken away by others, may fail at any moment, and says "ok" only of a name that has
what was asked for, but for what others did since it looked.  `ActsAsCalls` is `Calls!Spec` under
the mapping to the addresses of managed and of owned records and to what each goroutine was told.

### Scanner

`Scan` to `Returns` is one call of `ScanProgress`; calls follow one another, since App holds
`scanMu`.  A batch is a range of `ranked` (the candidates that answered TCP, fastest first);
`queued`, `running`, `sent` and `kept` are where its addresses are: with the feeding goroutine,
in a worker, in the result channel, with the collecting loop.

| code | actions |
|---|---|
| `ScanProgress`, `readSource`, `generateCandidates`, `filterBlacklist`, `rankTCP` | `Scan`, `ReadSource`, `RankTCP` |
| the loop over batches, `scanBatchSize` | `NextBatch`, `Returns` |
| `filterByDownloadSpeed`, `probeCandidates` (both worker pools) | `HandOut`, `Finish`, `Take`; `SpeedFilterEnds`, `Merge` |
| the context (pause, time limit, shutdown) | `Cancel` |

Abstracted: prefixes are sets of addresses, and any selection of at most `max_candidates` of
them may be the candidates (`generateCandidates` draws or takes the first ones; IPv4 and IPv6
shares are left out); what a dial, a download or a probe returns is chance; counters and log
lines are left out; the result of a cancelled scan is not told from an error.

### AddressLists and AddressBook

`disk` and `torn` are the file, `cfg` the lists in use.  A goroutine's `task` holds the writes
that its operation has still to make; `Set` is `SetReads`, `SetTruncates`, `SetWrites` (or
`SetFails`), the reload `ReloadReads`, `ReloadAssigns`, and so a second writer may come in
between any two of them.  A list entry is a set of addresses: one, or a CIDR.

| code | actions |
|---|---|
| `runPostPoolSpeedTest`, `removeSlowPostPoolIP`, `addPostPoolSpeedExemptIPs` | `StartRound`, `TestPasses`, `TestFails`, `RoundInterrupted`, `RoundEnds` |
| `runBlacklistSpeedTest`, `unblacklistRestoredIPs` | `StartRestore`, `Restores`, `TesterEnds` |
| `persistPostPoolExemptList` (pinned addresses that cool too long) | `Evict` |
| `handleCFNatConfig` with `applyBlacklistNow`; `clearManagedIPLists` | `StartSave`, `SaveEnds`; `StartClear`, `ClearEnds` |
| `handleCFNatConfigFile` (whole file, check, rollback) | `StartEdit`, `EditFails`, `EditTruncates`, `EditWrites`, `EditAccepted`, `EditRejected`, `EditUndone` |

`Exclusive` is what the form does to three lists that name an address twice, `ForWinner` what
`Set` does, `Normalized` what `Load` does.  `met` and `agreed` are history, written by `Recorded` and read by no guard: who was at work
at the same time as somebody else, and whether a lone operation has brought file and memory into
step since operations last met or a write last failed.  Abstracted: all other keys of the
configuration; the pool, but for the addresses that speed tests remove and that `applyBlacklistNow` drops; the DNS
syncs the tests ask for; that the old bytes cannot be written back either after a refused edit.

AddressBook is the abstract specification: every address has one place (`none`, `black`, `force`,
`exempt`) in use and one on disk; tests move it along the documented edges only, everything else is
the user.  `Promised` in AddressLists is `Book!Spec` under the refinement mapping that computes
an address's place as `Load` would.

### StatusFeed

`version` stands for the content of `App.state`, `file` for the version in state.json, `proxyOn`
and `paused` for the two switches a viewer sees, `empty` for a pool without addresses: a monitor
tick saves only while there are some (`app.go:289`, `1562`), a retry tick scans, and so saves,
only while there are none and scans are not paused.  `Quiet` (empty and paused) is the state of
a program in which nothing saves any more of itself.  Of the sequence number each stream needs one
bit: whether it has moved since the stream took it (`behind`).

| code | actions |
|---|---|
| `saveState`, `writeState`, `broadcastState` | `Change`, `Tick` or `Retry`, `Serialize`, `Rename` or `WriteFails`, `Broadcast` |
| `proxy.Toggle`, `ToggleScanPause` with their handlers | `Toggle`, `ToggleStores`; `ToggleScanPause` |
| `handleEvents`, `stateSequence` | `Draft`, `Send`, `TakeSequence` |
| `waitStateChange` (lock, test, `Cond.Wait`) and the goroutine it starts | `Enter`, `Sleep`, `Wake` |
| the client goes away | `Leaves` |

### ShodanManager

The files on disk are config.json (`file`: whether it can be read; `store`: what was last written
whole), status.json (`status`) and the result files (`results`: the archive of a query and the copy
of a profile, which the configuration names).  The mutex `mu` admits one fetch; three kinds of
goroutines work on the files: Web handlers, fetches started by them, and the loop.  Every
operation reads the whole configuration into a copy (`cfg`, for the iteration of the loop
`listed`), changes the copy and writes it back.  `os.WriteFile` is two steps for each kind of
file, emptying and writing, so that a crash, a full disk or a second writer may leave a file that
nobody can parse.  An unreadable status.json counts as idle; errors of writing it, and of writing
the copy of a profile, are ignored as in the code.  `moved` is history: whose schedule others
changed in the file since a fetch read it.

| code | actions |
|---|---|
| `UpdateActive`, `ToggleDownload`; `UpdateActiveSchedule`, `SwitchProfile`, `NewProfile`, `DeleteActive` | `SaveSettings`; the actions of the same names |
| `SaveConfig`, `writeJSON` | `Truncate`, `Write`, `WriteFails` |
| `setStatus`, and `ensure` which creates status.json | `ShowTruncates`, `Show`, `ShowFails`; `FirstLook`, `Ensure` |
| `Fetch`, `FetchProfile` | `StartFetch`, `TryLock`, `Refused`, `NoProfile`, `NoQuery`, `Search`, `SearchFails`, `SearchSucceeds`, `ArchiveFails`, `Archived`, `Copied`, `FetchEnds` |
| `RunDueAutoFetch`, `markAutoFetchDue`, `recordAutoFetch` | `Tick`, `Complain` (a schedule that cannot be parsed), `MarkDue`, `RecordAutoFetch`, `TickEnds` |

Abstracted: the text of a query (a profile has an API key and a query, or `NoKey`); the
calendar (`NextAutoFetchAt` is later or due; the clock makes it due in all copies at once);
counts, error texts and times shown to users; a user's form and the download switch are one
setting; `ensure` never finds a file without profiles (that is `ActiveExists`).

## 3. The runs

| run | question | result |
|---|---|---|
| `dns_two_syncers` | two goroutines in Sync at once: owner's records untouched, success means published, the name emptied only by both together; do the requests implement the calls of DNSCall? | holds |
| `pool_maintain` | the maintain loop alone, with a pinned address, eviction and DNS: no panic, recovery, pinned addresses, DNS catches up | holds |
| `pool_racing` | startup, Web and scheduled scans beside maintain: pool size, admission, the only way past a cooldown, the proxy keeps up with the pool | holds |
| `pool_lists` | blacklist handler and pause beside maintain: an empty pool is scanned for again | holds |
| `scan_all_cooling` | does the process survive a scan whose results start to cool? | **violated** |
| `scanner` | are a scan's results the best it found, is no candidate forgotten when workers stop early, does every scan end? | holds |
| `scanner_untested` | is every candidate that answered speed tested before a scan comes back short? | **violated** |
| `lists` | tests and users change the lists one operation at a time, writes may fail: no contradictions, decisions stick, memory and file agree, nothing blacklisted is forwarded to at rest, and the lists implement AddressBook | holds |
| `lists_race` | does an address that a test blacklists stay so while another goroutine writes its list? | **violated** |
| `feed` | do file and streams catch up with every change, whatever meets, and do handlers of gone clients end, unless the program goes quiet for good? | holds |
| `shodan` | a user and the loop on the same files: active profile, results, what a fetch undoes, schedules | holds |
| `shodan_stale_save` | does a fetch leave the schedules alone that users saved meanwhile? | **violated** |

More configurations are kept for use by hand: they show where a property that a run
checks on a smaller system stops holding, or one that the code does not have:

| configuration | property | what TLC finds |
|---|---|---|
| `PoolHealthScan.cfg` | `HealthyKept` | a slower health scan cuts the healthy addresses it meant to keep |
| `PoolScanRace.cfg` | `CoolingNotForwarded` | a scan of its own goroutine reinstalls an address that has started to cool |
| `PoolBlacklistDNS.cfg` | `BlacklistReachesDNS` | a blacklisted address stays in DNS |
| `DNSSyncTwo.cfg` | `NeverEmptied` | two syncs at once empty the name |
| `ListsNets.cfg` | `DecisionsStick` | a form whose entries overlap (an address and a CIDR around it): the order in which the keys are written decides |
| `ListsNetsKept.cfg` | `BlacklistKept` | an exempt CIDR around a blacklisted address: the eviction of another address writes the exempt list, which lifts the entry |
| `PoolPanicBlacklist.cfg` | `NeverPanics` | a user blacklists all that a running scan found, and the scan ends in `pool[0]` of an empty pool |
| `PoolEvicted.cfg` | `PoolBounded` | an evicted pinned address stays in the pool as a dynamic one, beyond `pool_size` |
| `PoolBlacklistLate.cfg` | `BlacklistStopsForwarding` | the proxy goes on forwarding to an address after its blacklisting was applied |
| `FeedQuiet.cfg` | `HandlersEnd` | in a quiet program the one broadcast for a client that left may come too early, and no other follows |
| `ShodanCopy.cfg` | `FetchedHasCopy` | a profile says fetched though writing its copy failed |
| `ShodanSearch.cfg` | `SearchIsShown` | status.json is torn, or the write failed: the panel shows idle in the middle of a search |
| `ShodanShown.cfg` | `RunningIsFetching` | who was refused writes "running" after the fetch that was in the way has ended |
| `ListsOverlap.cfg` | `AgreedAtRest` and the other invariants | nothing (1.3 million states): with operations that overlap, the next lone one heals what they left |

**What the violations are** (PROJECT.json `findings` quotes the documents for the runs):

1. *Panic* (`scan_all_cooling`, `app.go:458`).  The results of a scan are filtered, composed with
   the pool and installed in three critical sections.  If the last of them is pruned in between,
   the composed pool is empty and `pool[0]` panics.  Needs only that a batch of the same scan
   was installed and failed its probes before the scan ended.
2. *A fetch undoes what users saved* (`shodan_stale_save`, `shodan.go:308`).  It saves the
   configuration that it read before the search, which takes up to minutes: schedules, settings,
   new and deleted profiles of that time are as they were before.
3. *A blacklist entry disappears* (`lists_race`, `config.go:850`).  `Set` reads the whole file and
   writes it all back without a lock; a writer of one list restores the other two as it read them.
   In the run the maintain loop evicts a pinned address while the speed test of a scan blacklists
   another; a form that is saved meanwhile loses its entry the same way.
4. *Candidates nobody tests* (`scanner_untested`, `scanner.go:239`).  A batch is larger than
   `speed_test.max_candidates`; the rest of it is dropped, as is what a batch left over that
   stopped early.  A scan may come back with too few results although others were there to test.
5. *A slower health scan shrinks the pool* (`PoolHealthScan.cfg`, `app.go:443`).  The target size is
   the number of scan results, which also cuts the healthy addresses that were to be kept.
6. *A cooling address returns* (`PoolScanRace.cfg`, `app.go:454` and `509`).  A pool is computed in
   one critical section and installed in the next; a prune in between is overwritten.  The address
   is then in both pools until a later composition drops it.  (If it also finishes its cooldown
   that way, an admission round with several candidates may exchange it for a faster one and
   take it back at once: the exception that `AdmissionEarned` names.)
7. *A blacklisted address stays in DNS* (`PoolBlacklistDNS.cfg`, `web.go:490`).  The refresh of the
   pinned pool already drops it, so `applyBlacklistNow` sees nothing to remove and asks for no sync.
8. *Two syncs empty the name* (`DNSSyncTwo.cfg`, `dns.go:80`).  Each finds the record the other one
   is about to delete, creates nothing and deletes the other's.
9. *The order of a map decides* (`ListsNets.cfg`, `web.go:475`).  A form that names an address in one
   list and a CIDR around it in another is written key by key, each winning over the ones before.
10. *An exempt CIDR lifts a blacklisted address* (`ListsNetsKept.cfg`, `app.go:1862`).  A blacklisted
   address inside an exempt CIDR is fine as long as the blacklist was written last; the next write of
   the exempt list, which need not concern that address, takes it off the blacklist.
11. *Panic after blacklisting* (`PoolPanicBlacklist.cfg`, `app.go:458`).  As 1, but it is the user who
   takes away what the running scan found; maintain alone does not (`pool_maintain`).
12. *One address too many* (`PoolEvicted.cfg`, `app.go:1953`).  An address evicted from the exempt list
   that is in the pool at the time is no longer pinned and counts from then on, but nothing cuts the
   pool until the next composition.
13. *A blacklisted address is still forwarded to* (`PoolBlacklistLate.cfg`, `app.go:1709` and `403`).
   Pools are published after the unlock, so that an older one may come last; and a scan that begins
   between the reload and the application of a new blacklist empties the pool without publishing
   that, whereupon the handler finds nothing to remove.  (`ProxyKeepsUp` says these are the two ways.)
14. *The Shodan panel's files* (`ShodanCopy.cfg`, `shodan.go:299`; `ShodanSearch.cfg` and
   `ShodanShown.cfg`, `shodan.go:506` and `258`).  The copy of a profile may be missing though the
   profile names it; the status may be idle during a search, and running when there is none.
15. *A handler that stays* (`FeedQuiet.cfg`, `app.go:2217`).  The broadcast that is to wake
   `waitStateChange` for a client that left takes no lock, so it may fall between the test and the
   wait.  Any later save makes up for it; with an empty pool and paused scans none need follow.

**Bounds and why they do.**
*ForwardPool*: two or three addresses against a pool of one or two let the pool be empty, short, full
and exceeded by one; latency levels distinguish a faster from a slower candidate where order
matters, and failing and unprobed levels come on top.  In `pool_maintain` three addresses, one of
them pinned at first, meet a pool of one; two successes are needed, so that a count is continued and
reset over rounds; a window of three observations with two samples required contains eviction,
no eviction and expiry.  `pool_racing` has the three scan kinds that own a goroutine and `health`,
which does not: every pair of goroutines that can meet does; two successes are needed there as well,
so that a count is copied before the probes of a round and continued in the next.  What one latency
level and a pool of one leave out of it, the exchange for the slowest of several (`AdmitForWorst`),
is in the theorems.  `pool_maintain` says nothing of races: a scan in a goroutine of its own, which
`Run` starts every time, is the subject of `pool_racing`, and breaks `NeverPanics` (`scan_all_cooling`).
*DNSSync*: three addresses of the record type, one of the other, two to publish, two goroutines and four
identifiers: every overlap of wanted, present, stale and owner's records occurs, and either goroutine
deletes what the other found.  A creation waits while no identifier is free.  Its addresses and
records are interchangeable (symmetry), as are the addresses of AddressLists; those of ForwardPool
are ordered and are not.
*Scanner*: five addresses, one of them blacklisted, at most four candidates, two results wanted.  Batches of three,
of which two are speed tested, make scans of one and two batches, the second shorter than the first;
two and three workers are fewer than, and as many as, the addresses of a batch; three latencies make ties and strict order.
*AddressLists*: two addresses, one goroutine of the tests and one of requests.  In `lists` operations
do not overlap (`Overlap` = FALSE) and one write of the tests fails, at any step: it asks whether an
operation does what it says by itself.  The code does not keep operations apart; what remains true
when they overlap is proved (`DiskStaysExclusive`, `ReloadsHeal`) and checked by hand
(`ListsOverlap.cfg`), what does not is `lists_race`, for which one address suffices.
*StatusFeed*: two savers, one of which runs the ticks, and a handler, one stream, one change besides
the ticks, one turn of a switch and one failed write: enough for two goroutines to rename in either order around a stream in any
stage.  Streams share nothing but `eventMu`.
*ShodanManager*: two profiles (one to delete and one left), one setting with a key and one
without, and up to `MaxRequests` requests and restarts: with three, a profile can be added,
configured and scheduled or fetched, or configured, fetched and deleted, while the loop does its part.
Nothing else is bounded: all runs explore every reachable state.  `CHECK_DEADLOCK FALSE`
stands in the Shodan configurations, because a file that cannot be parsed stops the manager for
good, and in those of StatusFeed, because a program with an empty pool and paused scans has nothing
left to do; the other systems never stop, and TLC checks that.

**Fairness.**
*ForwardPool*: the goroutines run (weak fairness of scan, round and handler
steps: no step of theirs waits for a user); monitor and retry tickers fire again and again
and Go's `select` chooses among ready cases at random, so a case that is ready infinitely often is
taken (strong fairness); the service manager restarts the process (weak); a DNS request that is
made again and again succeeds at some time, if it can at all (strong, on the successful
outcome; only `DNSCatchesUp` relies on it).  Users and time (`Environment`), the first scan
and scheduled scans get none.
*Scanner*: each step of `ScanProgress` and its workers is weakly fair, since dials, downloads and
probes have time limits; scans need not begin, and nobody has to cancel one.
*StatusFeed*: the tickers fire (weak, each while the code lets its tick save: the monitor's while a pool
has addresses, the retry's while none has and scans are not paused), goroutines run (weak), and who
waits for `eventMu` gets it though others take it in between (strong: Go's mutex hands over after a
millisecond).  Nobody has to change anything, turn a switch or leave.  Without addresses and with
scans paused nothing saves of itself, so the three liveness properties speak of behaviours that do
not end `Quiet`; in one that does an overtaken file, or a handler whose one wake-up came too early,
stays as it is (`FeedQuiet.cfg`).
*ShodanManager*: goroutines run, searches end (the HTTP client has a
timeout), time passes; users owe nothing, and `AutoFetches` speaks of the time after they left.

**Each property is broken by a bug.**  `mutants` in PROJECT.json names, for each property of
each passing run, a change of one definition (also to be found beside it in the module, such
as `ProbedKeepsRemoved` beside `Probed`) under which TLC finds it violated.

## 4. The proofs

tlapm checks these for every finite set of addresses, every number of latency levels,
handlers, profiles, workers, goroutines and streams, and every configuration that satisfies the
assumptions (`LimitsAssumption`, `SwitchesAssumption` and `NumbersAssumption` are what
`config.Validate` enforces).

| theorem | states |
|---|---|
| `DNSSync_proofs!TypeCorrect` | `Spec => []TypeOK` |
| `DNSSync_proofs!OwnersRecordsAreSafe` | `Spec => []UserRecordsKept`, any number of goroutines |
| `DNSSync_proofs!SuccessIsPublished` | `Spec => SuccessMeansPublished`, any number of goroutines |
| `DNSSync_proofs!EmptiedTogetherOnly` | `Spec => EmptiedOnlyTogether`, any number of goroutines |
| `DNSSync_proofs!SyncsAreCalls` | `Spec => ActsAsCalls`: any number of goroutines inside Sync implement DNSCall |
| `PoolOps_proofs!ProgressIsBounded` | a batch selection has at most `pool_size` addresses |
| `PoolOps_proofs!SelectionIsBounded` | a final selection has at most the size asked for |
| `PoolOps_proofs!SelectionKeepsSome` | the selection after a scan that found something usable is not empty, and from what it was given |
| `PoolOps_proofs!HealthySelectedFirst` | a health rescan that is not faster keeps the best healthy addresses, all if they fit |
| `ForwardPool_proofs!TypeCorrect` | `Spec => []TypeOK` |
| `ForwardPoolSafety_proofs!PoolSizeRespected` | if no address stops being pinned (`PinsStand`), `Spec => []PoolBounded` |
| `ForwardPoolSafety_proofs!CooldownIsRespected` | `Spec => CoolingStaysOut`, whatever runs beside maintain |
| `ForwardPoolSafety_proofs!AdmissionIsEarned` | `Spec => AdmissionEarned`, whatever runs beside maintain |
| `ForwardPoolSafety_proofs!ProxyKeepsFollowing` | `Spec => ProxyKeepsUp`, whatever runs beside maintain |
| `Scanner_proofs!ScannerTypeCorrect` | `Spec => []TypeOK` |
| `Scanner_proofs!ResultsAreBest` | `Spec => []BestOfFound` |
| `Scanner_proofs!NobodyForgotten` | `Spec => []ShortScanProbedAll` |
| `Scanner_proofs!UntestedOnlyAfterEnough` | if batches are tested whole (`WholeBatchesTested`), `EveryoneTested` always holds or `valid_ip_count` candidates passed the download test |
| `AddressLists_proofs!ListsTypeCorrect` | `Spec => []TypeOK` |
| `AddressLists_proofs!DiskStaysExclusive` | `Spec => []ExclusiveOnDisk`, operations overlapping or not |
| `AddressLists_proofs!ReloadsHeal` | `Spec => []AgreedAtRest`, operations overlapping or not, writes failing or not |
| `StatusFeed_proofs!FeedTypeCorrect` | `Spec => []TypeOK` |
| `StatusFeed_proofs!StreamsMissNothing` | `Spec => []NothingMissed`, any number of streams, savers, handlers |
| `ShodanManager_proofs!TypeCorrect` | `Spec => []TypeOK` |
| `ShodanManager_proofs!ActiveAlwaysExists` | `Spec => []ActiveExists`, any number of goroutines and crashes |
| `ShodanManager_proofs!ResultsComeFirst` | `Spec => []FetchedHasResults` |
| `ShodanManager_proofs!FetchesUndoOnlyNews` | `Spec => FetchUndoesOnlyNews`, any number of goroutines |

**Arguments.**  `UserRecordsKept` is not inductive: a deletion must hit a managed record, so the
invariant adds `IdsIdentify` (an identifier names one record) and `DropsAreManaged` (what a
goroutine wants to delete is managed, or gone).  For any number of callers `ViewIsCurrent` says that
what a goroutine concluded from its list answer still holds but for `gone` and `come`: each wanted
address exists, is still to be created, or was taken away by another, and each managed record that
is not wanted is still to be deleted or was brought by another.  Hence a deletion that leaves nothing
behind is that of a goroutine whose addresses all went to others, and "ok" means what it can mean.
That the name is never emptied at all is false for two (`DNSSyncTwo.cfg`).
The refinement `SyncsAreCalls` takes every action to a step of DNSCall or to a stutter: the answer
to a list request is `Looks`, a creation is `Adds` and a deletion `Removes` whether or not its answer
arrives, and `ViewIsCurrent` makes the old list answer as good as the zone for `Removes` and
`Succeeds`, whose guards speak of the name as it is.
PoolOps: the latency order is total, so the members of a pool have distinct ranks below its
size (`RanksDiffer`), and "the n best" has at most n members (`TopSize`).  TypeCorrect of
ForwardPool has one lemma per action; the interesting parts are `Worst`, which must exist
in a full pool (`WorstDynamic`), and the selections, which must stay pools.

ForwardPoolSafety_proofs first says in a few *frames* what a step of each goroutine does to
the two pools (`ScanFrame`, `AsideFrame`, `RoundFrame`, `PruneFrame`, `AdmitFrame` and so on);
`StepKinds` proves that every step is one of them, and each induction then needs only the
frames.  The invariants are defined at the end of ForwardPool, where TLC confirmed them:

- `BoundInv`: of the pool *and of the pool that a scan drafted and has yet to install*, at most
  `pool_size` addresses are not pinned; the second part is what `ProgressInstall` and `FinalInstall`
  need.  `PinsStand` (no `direct_pool_refill`, or nobody who edits lists or evicts) keeps a pinned
  address from becoming one that counts; without it the statement is false (`PoolEvicted.cfg`).
- `CoolingStaysOut` speaks of single steps and needs no invariant but types: every pool that is composed
  and installed at once (`Recomposed`, by handlers, rounds and beginning scans) is without the
  recovery pool, a prune takes out what it lets cool, an admission takes out of the recovery pool
  what it brings in; what is left is the installation of a draft.
- `EarnedInv`: every candidate of a recovery round that is still in the recovery pool has
  finished its cooldown and has its successes, from its probe to its admission.
- `ProxyKeepsUp` needs only that the pool is followed before the step (`Followed`): each kind of step
  either leaves pool and proxy alone, or holds the new pool for a publication, or publishes.  Three
  changes are not published at all and need an argument: a prune that calls the pool unchanged because it
  is a prefix of the old one (`PrefixSameOrder`: with the same members that is the same order), a
  blacklist that takes nobody out, and an admission round that was refused (`round.changed`).  The
  two ways in which the proxy does lose the pool are named in the property.

None of them assumes anything about who else is at work.  `PinsStand`, for `PoolSizeRespected`, is about
constants a user sets: `direct_pool_refill` off, or no eviction and no lists edited while it runs.

ShodanManager: any copy may be written back at any time, so `CopiesInv` says of *every* copy
what the file has to satisfy, and each operation is shown to make good copies of good copies
(`PutGood`, `SwitchGood`, `DeleteGood`, `AgedGood`).  Good copies claim only files that somebody has begun
to write (`Honest`, `Begun`).  For `FetchUndoesOnlyNews` the same invariant says of the copy of a fetch
that its schedules differ from those of the file only for profiles in `moved`, whoever saves meanwhile
(`Sound`); the part about `Config` needs that a missing file stands for the default one.

Scanner: `BatchesDisjoint` (an address is in one batch only, and nothing in the hands of a batch is
a result already) makes the merge lossless; `Accounted` says where every result a probe found is,
which with the lemma `TwoCuts` (cutting each batch and cutting again keeps the best of all) is
`BestOfFound`; `InLine` says that who still has to be probed is in the queue unless the scan is
cancelled or enough passed, and a pool of workers that stopped early did so with enough.  `TestInv`
says the same of the download test: who was taken and is not tested is in line, if the test takes the
whole batch.  `WholeBatchesTested` (a `max_candidates` not below the floor of a batch) and the second
disjunct name the two ways in which `scanner_untested` comes about, and that there is no third.

AddressLists: `With` leaves no entry in two lists if the copy it starts from has none
(`WithOneListEach`), so the invariant adds that of every copy a goroutine may write back, the bytes kept
for a rollback included (`CopiesExclusive`), and that no `Set` which skips a job on failure is the last
one (`SkipsOneJob`).  `AgreedAtRest` rests on `LoneInv`: every operation that writes through `Set` ends
in a reload (`Shaped`), and a reload of a goroutine that met nobody puts in use what the file holds
(`ReadsTruly`), whatever overlapping or failures left there.  From then on, and until somebody meets
or fails, a goroutine at work has a reload before it or behind it (`InStep`), and while the whole
file is edited keeps the bytes that were in step before (`Undoable`).

StatusFeed: `DraftIsFresh` says of the event about to be sent what `NothingMissed` says of the one
shown, and `SequenceIsFirst` that only the first event is read before the sequence number is taken:
later ones are read after it, so what they miss leaves the stream `behind`.

**Only model-checked**: liveness (`ScansAgain`, `DNSCatchesUp`, `AutoFetches`, `ScansEnd`,
`FileCatchesUp`, `StreamCatchesUp`, `GoneClientsLeave`; fairness is out of tlapm's reach); and the
properties that hold of a goroutine that works alone but not of the whole program:
`NeverPanics`, `RecoveryEarned` and `PinnedStay` in `pool_maintain`, `DecisionsStick`,
`NothingBarredForwarded` and `Promised` in `lists`.  Of these nothing is proved, since the code does
not keep others away; the runs show that each goroutine does its own part right, and the violating runs
and configurations what another one may do to it.  Every other safety property that a passing run
checks has a theorem that assumes nothing of who else is at work; the one premise left is
`PinsStand`.

## 5. Plan

1. Done: ForwardPool with PoolOps, DNSSync under DNSCall, ShodanManager; AddressLists under AddressBook,
   StatusFeed, Scanner; their runs; the theorems of section 4, for any number of goroutines.
2. Next: DNSCall in the place of ForwardPool's one-step sync, for a pool that changes during a call.
3. Next: `ScansAgain` with Web scans that time out, in an instance small enough for TLC; a form that stops
   half way and operations that overlap, under a weaker AddressBook that says what is then left.

## 6. Not modelled

- Measuring: HTTP, TCP and ICMP latency, download speed.  Their outcomes are chance.
- Accepting, dialling and copying of proxied connections: a connection reads the target list once,
  and nothing of it comes back.
- The share of IPv4 and IPv6 among candidates, and that the list of candidates that are not random
  is cut before the blacklist is applied.
- `Migrate`, the keys of `Set` other than the lists, and `Validate` beyond its bounds: parsing, done
  before the service starts or inside one `Set`.
- A crash between truncating and writing the configuration (`config.go:850`): the service does not
  start again until the file is repaired by hand.
- Sharing of slices: `applyBlacklistNow` filters `a.pool` in place.
- A failed or half-written source cache: `ReadSource` has the copy complete or not at all.
- Web pages, login, sessions, log streaming, the update check (one request whose answer is shown),
  the command line, installation and service scripts.
- Status texts, timestamps and daily counters, which influence nothing that is modelled.
