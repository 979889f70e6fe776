----------------------------- MODULE ForwardPool -----------------------------
(***************************************************************************)
(* The forward pool of cfnat (internal/app/app.go): which addresses new    *)
(* connections are forwarded to, which are cooling, and when a scan, a     *)
(* health round or a configuration change replaces them.                   *)
(*                                                                         *)
(* Three kinds of goroutines share the state under a.mu:                   *)
(*   maintain   the ticker loop: health rounds, recovery rounds, rescans   *)
(*   scan       the goroutine inside rescan (its own for "startup" and     *)
(*              "web", the maintain goroutine itself for other reasons);   *)
(*              scanMu makes it unique                                     *)
(*   Handler    Web requests that save the address lists                   *)
(* One action is one critical section of a.mu, one probe, one publication  *)
(* to the proxy or one DNS call: between them anything may happen.  The    *)
(* admission of recovered addresses is one critical section that takes     *)
(* several steps, MuFree says when a.mu is held across states.             *)
(***************************************************************************)
EXTENDS PoolOps

CONSTANTS
    Handler,            \* Web goroutines that save lists
    Lists,              \* the [ip_blacklist, exempt_list] a user may save
    InitLists,          \* those in the configuration file at the start
    Reasons,            \* the rescan reasons that occur
    PoolSize,           \* pool_size
    MinHealthyCount,    \* min_healthy_count
    HealthFailures,     \* health_failures
    RecoverySuccesses,  \* recovery_successes
    DirectPool,         \* exempt_enabled and exempt_direct_pool_enabled
    LatencyFilter,      \* exempt_latency_filter_enabled
    EvictEnabled,       \* exempt_recovery_evict_enabled
    MinSamples,         \* exempt_recovery_min_samples
    MaxRatio,           \* exempt_recovery_max_ratio, in percent
    WindowSamples,      \* bound: observations that fit a recovery window
    DNSEnabled,         \* cloudflare_dns.enabled
    Family,             \* the addresses of the configured record type
    SyncCount,          \* cloudflare_dns.sync_count
    LatencySync,        \* cloudflare_dns.latency_sync_enabled
    Pausing             \* does the user pause and resume scans?

AllReasons == {"startup", "web", "health", "retry", "scheduled"}
OwnGoroutine == {"startup", "web"}

ASSUME HandlerAssumption == Handler \cap {"maintain", "scan"} = {}
ASSUME ListsAssumption ==
    /\ Lists \subseteq [ip_blacklist: SUBSET IP, exempt_list: SUBSET IP]
    /\ InitLists \in [ip_blacklist: SUBSET IP, exempt_list: SUBSET IP]
    /\ Reasons \subseteq AllReasons
\* What config.Validate enforces.
ASSUME LimitsAssumption ==
    /\ PoolSize \in Nat \ {0} /\ MinHealthyCount \in 1..PoolSize
    /\ HealthFailures \in Nat \ {0} /\ RecoverySuccesses \in Nat \ {0}
    /\ MinSamples \in Nat \ {0} /\ MaxRatio \in 1..100
    /\ WindowSamples \in Nat \ {0}
    /\ SyncCount \in 1..PoolSize /\ Family \subseteq IP
ASSUME SwitchesAssumption ==
    /\ DirectPool \in BOOLEAN /\ LatencyFilter \in BOOLEAN
    /\ EvictEnabled \in BOOLEAN /\ DNSEnabled \in BOOLEAN
    /\ LatencySync \in BOOLEAN /\ Pausing \in BOOLEAN

VARIABLES
    cfg,            \* a.cfg: the two lists that change while cfnat runs
    paused,         \* a.scanPaused
    booting,        \* the startup goroutine has not called rescan yet
    pool,           \* a.pool
    healthy,        \* addresses of a.state.Targets with status "healthy"
    failures,       \* a.failures
    recovery,       \* a.recovery
    cooling,        \* those whose recovery_cooldown since a.recoveryAt runs
    recoveryOK,     \* a.recoveryOK
    eligible,       \* a.pinnedEligible
    observed,       \* a.state.PinnedHealth: observations and
    cooled,         \*   cooling observations of the current window
    inProgress,     \* a.state.Scan.InProgress
    synced,         \* a.state.DNS.Synced
    syncedIPs,      \* a.state.DNS.SyncedIPs
    proxyPool,      \* what the proxy forwards to
    pc,             \* where each goroutine is
    out,            \* the pool it computed, is to publish, or syncs
    todo,           \* the addresses it still has to probe
    scan,           \* locals of rescan
    round           \* locals of the current maintain round

poolVars == <<pool, healthy, failures>>
recoveryVars == <<recovery, cooling, recoveryOK>>
pinVars == <<eligible, observed, cooled>>
dnsVars == <<synced, syncedIPs>>
vars == <<cfg, paused, booting, poolVars, recoveryVars, pinVars, inProgress,
          dnsVars, proxyPool, pc, out, todo, scan, round>>

Thread == {"maintain", "scan"} \cup Handler

ScanPC == {"idle", "eligibility", "pinning", "merged", "base", "rebased",
           "scanning", "batch", "progress", "progressed", "filter", "chosen",
           "installed", "finish", "sync", "syncing", "panicked"}
MaintainPC == {"idle", "probing", "pruned", "recover", "reprobing", "admitting",
               "admitted", "decide", "sync", "syncing", "judge", "scanning"}
HandlerPC == {"idle", "eligibility", "pinning", "merged", "blacklist",
              "filtered", "filteredDNS", "sync", "syncing"}

\* rescan: scanBaseHealthy, the blacklist of scanCfg, the valid results so far
\* and those of them that passed the recovery and pinned filters.
ScanLocals == [reason: AllReasons \cup {"none"}, base: Pool, banned: SUBSET IP,
               results: Pool, valid: SUBSET IP]
NoScan == [reason |-> "none", base |-> EmptyPool, banned |-> {},
           results |-> EmptyPool, valid |-> {}]

\* checkAndPrunePool and checkRecoveryPool: what the probes found, the pool and
\* the recoveryOK the round started from, and the healthStatus handed on.
RoundLocals == [removed: SUBSET IP, checked: Pool, before: Pool,
                okBefore: [IP -> 0..RecoverySuccesses], changed: BOOLEAN,
                count: 0..Cardinality(IP), dns: BOOLEAN, urgent: BOOLEAN]
NoRound == [removed |-> {}, checked |-> EmptyPool, before |-> EmptyPool,
            okBefore |-> [i \in IP |-> 0], changed |-> FALSE,
            count |-> 0, dns |-> FALSE, urgent |-> FALSE]

PCTypeOK ==
    /\ pc \in [Thread -> ScanPC \cup MaintainPC \cup HandlerPC]
    /\ pc["scan"] \in ScanPC /\ pc["maintain"] \in MaintainPC
    /\ \A h \in Handler : pc[h] \in HandlerPC

TypeOK ==
    /\ cfg \in [ip_blacklist: SUBSET IP, exempt_list: SUBSET IP]
    /\ paused \in BOOLEAN /\ booting \in BOOLEAN
    /\ pool \in Pool
    /\ healthy \in SUBSET IP
    /\ failures \in [IP -> 0..HealthFailures]
    /\ recovery \in SUBSET IP /\ cooling \in SUBSET IP
    /\ recoveryOK \in [IP -> 0..RecoverySuccesses]
    /\ eligible \in Pool
    /\ observed \in [IP -> Nat] /\ cooled \in [IP -> Nat]
    /\ inProgress \in BOOLEAN
    /\ synced \in BOOLEAN /\ syncedIPs \in [IP -> Nat]
    /\ proxyPool \in Pool
    /\ PCTypeOK
    /\ out \in [Thread -> Pool]
    /\ todo \in [Thread -> SUBSET IP]
    /\ scan \in ScanLocals
    /\ round \in RoundLocals

Idle == [t \in Thread |-> "idle"]
NoPools == [t \in Thread |-> EmptyPool]
NoProbes == [t \in Thread |-> {}]
NoCounts == [i \in IP |-> 0]

\* New and Run.
Init ==
    /\ cfg = InitLists
    /\ paused = FALSE /\ booting = ("startup" \in Reasons)
    /\ pool = EmptyPool /\ healthy = {} /\ failures = NoCounts
    /\ recovery = {} /\ cooling = {} /\ recoveryOK = NoCounts
    /\ eligible = EmptyPool /\ observed = NoCounts /\ cooled = NoCounts
    /\ inProgress = FALSE
    /\ synced = FALSE /\ syncedIPs = NoCounts
    /\ proxyPool = EmptyPool
    /\ pc = Idle /\ out = NoPools /\ todo = NoProbes
    /\ scan = NoScan /\ round = NoRound

(***************************************************************************)
(* Helpers of App that run under a.mu.                                     *)
(***************************************************************************)

\* a.mu is held by the admission loop, or for ever by a goroutine that panicked
\* inside its critical section.
MuFree == pc["maintain"] # "admitting" /\ pc["scan"] # "panicked"

\* configuredPinnedExactSetLocked
Pinned == IF DirectPool THEN cfg.exempt_list \ cfg.ip_blacklist ELSE {}

\* activePinnedResultsLocked, given a.pool: the pinned addresses that take part.
\* Without the latency filter an unknown one joins last.
ActivePinned(p) ==
    [i \in IP |->
        IF i \notin Pinned THEN Absent
        ELSE IF p[i] # Absent THEN p[i]
        ELSE IF LatencyFilter THEN eligible[i]
        ELSE Unprobed]

\* Its effect on a.pinnedEligible.
EligibleAfter(p, e) ==
    IF Pinned = {} \/ ~LatencyFilter THEN e
    ELSE [i \in IP |-> IF i \notin Pinned THEN Absent
                       ELSE IF p[i] # Absent THEN p[i] ELSE e[i]]

\* composeForwardPoolLocked, given a.pool and a.recovery.
Compose(p, cooler, dynamic) ==
    Without(Union(ActivePinned(p), Without(dynamic, cfg.ip_blacklist)), cooler)

\* dynamicPoolLocked
Dynamic(p) == Without(p, Pinned)

\* currentHealthyDynamicPoolLocked
HealthyDynamic == Only(pool, healthy \ Pinned)

\* mergeTargetStates: known targets keep their status, new ones are healthy; a
\* synthetic latency is never healthy.
Merge(old, ok, new) ==
    {i \in In(new) : new[i] \in Measured /\ (i \in In(old) => i \in ok)}

(***************************************************************************)
(* DNS bookkeeping.                                                        *)
(***************************************************************************)

Listed(list) == {i \in IP : list[i] # 0}

\* desiredDNSIPsLocked
DesiredDNS(p) == FirstOf(p, IF DNSEnabled THEN Family ELSE {}, SyncCount)

\* shouldSyncDNSAfterFinalScanLocked
SyncAfterScan ==
    LET desired == DesiredDNS(pool)
    IN  Listed(desired) # {} /\ (~synced \/ syncedIPs = NoCounts \/ syncedIPs # desired)

\* shouldSyncDNSAfterPoolChangeLocked; `due` says whether latency_sync_interval
\* has passed since the last sync.
SyncAfterChangeOnly(p, removed, due) ==
    LET desired == DesiredDNS(p)
    IN  /\ Listed(desired) # {}
        /\ \/ Listed(syncedIPs) \cap removed # {}
           \/ LatencySync /\ due /\ syncedIPs # desired
SyncAfterChange(p, removed, due) ==
    LET desired == DesiredDNS(p)
    IN  /\ Listed(desired) # {}
        /\ \/ ~synced \/ syncedIPs = NoCounts
           \/ Listed(syncedIPs) \cap removed # {}
           \/ LatencySync /\ due /\ syncedIPs # desired

Goto(t, label) == pc' = [pc EXCEPT ![t] = label]
Hold(t, p) == out' = [out EXCEPT ![t] = p]
Drop(t) == Hold(t, EmptyPool)

(***************************************************************************)
(* proxy.Update comes after a.mu is released: `out` may be old by then.    *)
(***************************************************************************)
PublishThenUnlessEmpty(t, here, next) ==
    /\ pc["scan"] # "panicked"
    /\ pc[t] = here
    /\ proxyPool' = IF In(out[t]) = {} THEN proxyPool ELSE out[t]
    /\ Goto(t, next)
    /\ Drop(t)
    /\ UNCHANGED <<cfg, paused, booting, poolVars, recoveryVars, pinVars,
                   inProgress, dnsVars, todo, scan, round>>
PublishThen(t, here, next) ==
    /\ pc["scan"] # "panicked"
    /\ pc[t] = here
    /\ proxyPool' = out[t]
    /\ Goto(t, next)
    /\ Drop(t)
    /\ UNCHANGED <<cfg, paused, booting, poolVars, recoveryVars, pinVars,
                   inProgress, dnsVars, todo, scan, round>>

ScanPublishes ==
    \/ PublishThen("scan", "merged", "base")
    \/ PublishThen("scan", "rebased", "scanning")
    \/ PublishThen("scan", "progressed", "scanning")
    \/ PublishThen("scan", "installed", "finish")

RoundPublishes ==
    \/ PublishThen("maintain", "pruned", "recover")
    \/ PublishThen("maintain", "admitted", "decide")

HandlerPublishes(h) ==
    \/ PublishThen(h, "merged", "blacklist")
    \/ PublishThen(h, "filtered", "idle")
    \/ PublishThen(h, "filteredDNS", "sync")

(***************************************************************************)
(* syncDNS: the pool is copied under a.mu, the Cloudflare calls come after *)
(* it, and their result is recorded under a.mu again.                      *)
(***************************************************************************)
AfterSync(t) == IF t = "maintain" THEN "judge" ELSE "idle"

\* Leaving rescan: the goroutine that called it goes on.
EndScan ==
    /\ pc' = [pc EXCEPT !["scan"] = "idle",
                        !["maintain"] = IF @ = "scanning" THEN "idle" ELSE @]
    /\ scan' = NoScan

SyncBegins(t) ==
    /\ MuFree /\ pc[t] = "sync"
    /\ synced' = FALSE
    /\ Hold(t, pool)
    /\ Goto(t, "syncing")
    /\ UNCHANGED <<cfg, paused, booting, poolVars, recoveryVars, pinVars,
                   inProgress, syncedIPs, proxyPool, todo, scan, round>>

\* cloudflare.Client.Sync refuses a pool without an address of the record type.
SyncReturns(t) ==
    /\ MuFree /\ pc[t] = "syncing"
    /\ \/ synced' = FALSE /\ UNCHANGED syncedIPs
       \/ /\ In(out[t]) \cap Family # {}
          /\ synced' = TRUE
          /\ syncedIPs' = FirstOf(out[t], IP, SyncCount)
    /\ Drop(t)
    /\ IF t = "scan" THEN EndScan ELSE Goto(t, AfterSync(t)) /\ UNCHANGED scan
    /\ UNCHANGED <<cfg, paused, booting, poolVars, recoveryVars, pinVars,
                   inProgress, proxyPool, todo, round>>

(***************************************************************************)
(* refreshPinnedPool, at the start of a scan and after a list was saved.   *)
(***************************************************************************)

\* refreshPinnedEligibility up to its probes.
Eligibility(t) ==
    /\ MuFree /\ pc[t] = "eligibility"
    /\ LET probing == Pinned # {} /\ LatencyFilter
           kept == Only(eligible, Pinned)
       IN  /\ eligible' = IF probing THEN Without(kept, recovery) ELSE kept
           /\ todo' = [todo EXCEPT ![t] =
                 IF probing THEN Pinned \ (In(pool) \cup recovery) ELSE {}]
    /\ Goto(t, "pinning")
    /\ UNCHANGED <<cfg, paused, booting, poolVars, recoveryVars, observed, cooled,
                   inProgress, dnsVars, proxyPool, out, scan, round>>

\* One answer of ProbeWithMode; a failure is Absent.
PinProbe(t, i, level) ==
    /\ MuFree /\ pc[t] = "pinning"
    /\ i \in todo[t]
    /\ todo' = [todo EXCEPT ![t] = @ \ {i}]
    /\ eligible' = With(eligible, i, level)
    /\ UNCHANGED <<cfg, paused, booting, poolVars, recoveryVars, observed, cooled,
                   inProgress, dnsVars, proxyPool, pc, out, scan, round>>

\* The pinned addresses join the pool.  A handler whose client went away and a
\* Web scan out of time stop probing early.
MergePinned(t) ==
    /\ MuFree /\ pc[t] = "pinning"
    /\ todo[t] = {} \/ t \in Handler \/ (t = "scan" /\ scan.reason = "web")
    /\ LET new == Compose(pool, recovery, Dynamic(pool))
           changed == ~SameOrder(pool, new)
       IN  /\ pool' = IF changed THEN new ELSE pool
           /\ healthy' = IF changed THEN Merge(pool, healthy, new) ELSE healthy
           /\ Hold(t, IF changed THEN new ELSE EmptyPool)
           /\ Goto(t, IF changed THEN "merged"
                      ELSE IF t = "scan" THEN "base" ELSE "blacklist")
    /\ eligible' = EligibleAfter(pool, eligible)
    /\ todo' = [todo EXCEPT ![t] = {}]
    /\ UNCHANGED <<cfg, paused, booting, failures, recoveryVars, observed, cooled,
                   inProgress, dnsVars, proxyPool, scan, round>>

(***************************************************************************)
(* rescan.  scansPaused and scanMu.TryLock come first; a call they refuse  *)
(* changes nothing.                                                        *)
(***************************************************************************)
MayScan == ~paused /\ pc["scan"] = "idle"

ScanBegins(reason) ==
    /\ MuFree /\ MayScan
    /\ reason \in Reasons
    /\ pc' = [pc EXCEPT !["scan"] = "eligibility",
             !["maintain"] = IF reason \in OwnGoroutine THEN @ ELSE "scanning"]
    /\ scan' = [NoScan EXCEPT !.reason = reason]
    /\ inProgress' = TRUE
    /\ IF reason = "web"
       THEN recovery' = {} /\ cooling' = {} /\ recoveryOK' = [i \in IP |-> 0]
       ELSE UNCHANGED recoveryVars
    /\ UNCHANGED <<cfg, paused, poolVars, pinVars, dnsVars, proxyPool, out, todo>>

\* Run starts a goroutine for the first scan.
Startup ==
    /\ booting /\ booting' = FALSE
    /\ ScanBegins("startup")
    /\ UNCHANGED round

StartupRefused ==
    /\ booting /\ booting' = FALSE
    /\ ~MayScan
    /\ UNCHANGED <<cfg, paused, poolVars, recoveryVars, pinVars, inProgress,
                   dnsVars, proxyPool, pc, out, todo, scan, round>>

\* handleCFNatScan
WebScan == ScanBegins("web") /\ UNCHANGED <<booting, round>>

\* The base the scan is compared with, and what the scanner must avoid.
ScanBase ==
    /\ MuFree /\ pc["scan"] = "base"
    /\ LET new == Compose(pool, recovery, Dynamic(pool))
       IN  /\ pool' = new
           /\ healthy' = Merge(pool, healthy, new)
           /\ Hold("scan", new)
           /\ Goto("scan", IF In(new) = {} THEN "scanning" ELSE "rebased")
    /\ scan' = [scan EXCEPT !.base = HealthyDynamic,
                            !.banned = cfg.ip_blacklist \cup Pinned]
    /\ eligible' = EligibleAfter(pool, eligible)
    /\ UNCHANGED <<cfg, paused, booting, failures, recoveryVars, observed, cooled,
                   inProgress, dnsVars, proxyPool, todo, round>>

UsableWhileCooling(results) == In(results) \ Pinned

\* Scan results that are neither cooling nor pinned (filterRecoveryResults,
\* filterPinnedResults).
Usable(results) == In(results) \ (recovery \cup Pinned)

\* A batch brought new valid addresses: applyScanProgress filters all results of
\* the scan so far, ...
ProgressFilter(batch) ==
    /\ MuFree /\ pc["scan"] = "scanning"
    /\ In(batch) # {}
    /\ In(batch) \cap (scan.banned \cup In(scan.results)) = {}
    /\ LET results == Union(scan.results, batch)
       IN  /\ scan' = [scan EXCEPT !.results = results, !.valid = Usable(results)]
           /\ Goto("scan", IF Usable(results) = {} THEN "scanning" ELSE "batch")
    /\ UNCHANGED <<cfg, paused, booting, poolVars, recoveryVars, pinVars,
                   inProgress, dnsVars, proxyPool, out, todo, round>>

\* ... computes the pool they give together with the healthy ones ...
ProgressSelect ==
    /\ MuFree /\ pc["scan"] = "batch"
    /\ LET new == Compose(pool, recovery,
                 SelectProgress(HealthyDynamic, Only(scan.results, scan.valid), PoolSize))
       IN  /\ Hold("scan", new)
           /\ Goto("scan", IF In(new) = {} THEN "scanning" ELSE "progress")
           /\ scan' = [scan EXCEPT !.valid = IF In(new) = {} THEN {} ELSE @]
    /\ eligible' = EligibleAfter(pool, eligible)
    /\ UNCHANGED <<cfg, paused, booting, poolVars, recoveryVars, observed, cooled,
                   inProgress, dnsVars, proxyPool, todo, round>>

\* ... and installs it, in a critical section of its own each.
ProgressInstall ==
    /\ MuFree /\ pc["scan"] = "progress"
    /\ pool' = out["scan"]
    /\ healthy' = In(out["scan"])
    /\ failures' = [i \in IP |-> IF i \in scan.valid THEN 0 ELSE failures[i]]
    /\ inProgress' = TRUE
    /\ scan' = [scan EXCEPT !.valid = {}]
    /\ Goto("scan", "progressed")
    /\ UNCHANGED <<cfg, paused, booting, recoveryVars, pinVars, dnsVars,
                   proxyPool, out, todo, round>>

\* The scanner found nothing, or the 10 minutes of a Web scan are over.
ScanFails ==
    /\ MuFree /\ pc["scan"] = "scanning"
    /\ In(scan.results) = {} \/ scan.reason = "web"
    /\ inProgress' = FALSE
    /\ EndScan
    /\ UNCHANGED <<cfg, paused, booting, poolVars, recoveryVars, pinVars,
                   dnsVars, proxyPool, out, todo, round>>

\* The scanner returns; results that all are cooling by now end the scan.
FinalFilter ==
    /\ MuFree /\ pc["scan"] = "scanning"
    /\ In(scan.results) # {}
    /\ scan' = [scan EXCEPT !.valid = Usable(scan.results)]
    /\ Goto("scan", "filter")
    /\ UNCHANGED <<cfg, paused, booting, poolVars, recoveryVars, pinVars,
                   inProgress, dnsVars, proxyPool, out, todo, round>>

NothingUsableStillFlagged ==
    /\ MuFree /\ pc["scan"] = "filter"
    /\ scan.valid = {}
    /\ EndScan
    /\ UNCHANGED <<cfg, paused, booting, poolVars, recoveryVars, pinVars, inProgress,
                   dnsVars, proxyPool, out, todo, round>>

NothingUsable ==
    /\ MuFree /\ pc["scan"] = "filter"
    /\ scan.valid = {}
    /\ inProgress' = FALSE
    /\ EndScan
    /\ UNCHANGED <<cfg, paused, booting, poolVars, recoveryVars, pinVars,
                   dnsVars, proxyPool, out, todo, round>>

\* The final pool is computed ...
FinalSize == IF Cardinality(scan.valid) < PoolSize
             THEN Cardinality(scan.valid) ELSE PoolSize

Selected ==
    SelectAfterScan(scan.reason, scan.base, Only(scan.results, scan.valid), FinalSize)
Chosen == Compose(pool, recovery, Selected)

FinalSelect ==
    /\ MuFree /\ pc["scan"] = "filter"
    /\ scan.valid # {}
    /\ Hold("scan", Chosen)
    /\ eligible' = EligibleAfter(pool, eligible)
    /\ Goto("scan", "chosen")
    /\ UNCHANGED <<cfg, paused, booting, poolVars, recoveryVars, observed, cooled,
                   inProgress, dnsVars, proxyPool, todo, scan, round>>

\* ... and installed in a second critical section, where pool[0] of an empty
\* pool panics.
FinalInstall ==
    /\ MuFree /\ pc["scan"] = "chosen"
    /\ pool' = out["scan"]
    /\ healthy' = In(out["scan"])
    /\ failures' = [i \in IP |-> 0]
    /\ inProgress' = FALSE
    /\ Goto("scan", IF In(out["scan"]) = {} THEN "panicked" ELSE "installed")
    /\ scan' = NoScan
    /\ UNCHANGED <<cfg, paused, booting, recoveryVars, pinVars, dnsVars,
                   proxyPool, out, todo, round>>

\* DNS after the whole scan (post_pool_speed_test is off).
ScanFinish ==
    /\ MuFree /\ pc["scan"] = "finish"
    /\ IF SyncAfterScan
       THEN synced' = FALSE /\ Goto("scan", "sync") /\ UNCHANGED scan
       ELSE UNCHANGED synced /\ EndScan
    /\ UNCHANGED <<cfg, paused, booting, poolVars, recoveryVars, pinVars,
                   inProgress, syncedIPs, proxyPool, out, todo, round>>

\* The panic ends the process; the service manager starts a new one, which keeps
\* nothing but the configuration and PinnedHealth.
Restart ==
    /\ pc["scan"] = "panicked"
    /\ paused' = FALSE /\ booting' = ("startup" \in Reasons)
    /\ pool' = EmptyPool /\ healthy' = {} /\ failures' = NoCounts
    /\ recovery' = {} /\ cooling' = {} /\ recoveryOK' = NoCounts
    /\ eligible' = EmptyPool
    /\ inProgress' = FALSE
    /\ synced' = FALSE /\ syncedIPs' = NoCounts
    /\ proxyPool' = EmptyPool
    /\ pc' = Idle /\ out' = NoPools /\ todo' = NoProbes
    /\ scan' = NoScan /\ round' = NoRound
    /\ UNCHANGED <<cfg, observed, cooled>>

(***************************************************************************)
(* maintain: a select over the tickers, a round at a time.                 *)
(***************************************************************************)
MaintainIdle == MuFree /\ pc["maintain"] = "idle"

\* rescan called in the maintain goroutine itself.
RetryTick ==
    /\ MaintainIdle
    /\ ~inProgress /\ In(pool) = {}
    /\ ScanBegins("retry")
    /\ UNCHANGED <<booting, round>>

ScheduledTick ==
    /\ MaintainIdle
    /\ ScanBegins("scheduled")
    /\ UNCHANGED <<booting, round>>

\* The monitor tick: checkAndPrunePool copies the pool and probes it.
MonitorTick ==
    /\ MaintainIdle
    /\ In(pool) \cup recovery # {}
    /\ todo' = [todo EXCEPT !["maintain"] = In(pool)]
    /\ Goto("maintain", IF In(pool) = {} THEN "recover" ELSE "probing")
    /\ UNCHANGED <<cfg, paused, booting, poolVars, recoveryVars, pinVars,
                   inProgress, dnsVars, proxyPool, out, scan, round>>

Probing(i) ==
    /\ MuFree /\ pc["maintain"] = "probing"
    /\ i \in todo["maintain"]
    /\ todo' = [todo EXCEPT !["maintain"] = @ \ {i}]
    /\ UNCHANGED <<cfg, paused, booting, pool, recoveryVars, pinVars, inProgress,
                   dnsVars, proxyPool, pc, out, scan>>

CountedBeyond(n, limit) == n + 1
Counted(n, limit) == IF n < limit THEN n + 1 ELSE limit

ProbeFails(i) ==
    /\ Probing(i)
    /\ healthy' = healthy \ {i}
    /\ failures' = [failures EXCEPT ![i] = Counted(@, HealthFailures)]
    /\ round' = [round EXCEPT !.removed =
                    IF failures'[i] = HealthFailures THEN @ \cup {i} ELSE @]

ProbeSucceeds(i, level) ==
    /\ Probing(i)
    /\ healthy' = healthy \cup ({i} \cap In(pool))
    /\ failures' = [failures EXCEPT ![i] = 0]
    /\ round' = [round EXCEPT !.checked[i] = level]

\* observePinnedCoolingLocked, when the windows of `expired` are over: every
\* pinned address is counted, and one that cools too often is dropped from the
\* list.
Expirable == {X \in SUBSET Pinned : \A i \in Pinned : observed[i] = WindowSamples => i \in X}
Observations(expired, i) == IF i \in expired THEN 1 ELSE observed[i] + 1
Coolings(expired, cooler, i) ==
    (IF i \in expired THEN 0 ELSE cooled[i]) + (IF i \in cooler THEN 1 ELSE 0)
Evicted(expired, cooler) ==
    {i \in Pinned :
        /\ EvictEnabled
        /\ Observations(expired, i) >= MinSamples
        /\ 100 * Coolings(expired, cooler, i) >= MaxRatio * Observations(expired, i)}

ObservePinned(expired, cooler) ==
    LET evicted == Evicted(expired, cooler)
    IN  /\ observed' = [i \in IP |-> IF i \in evicted THEN 0
                           ELSE IF i \in Pinned THEN Observations(expired, i)
                           ELSE observed[i]]
        /\ cooled' = [i \in IP |-> IF i \in evicted THEN 0
                           ELSE IF i \in Pinned THEN Coolings(expired, cooler, i)
                           ELSE cooled[i]]
        /\ cfg' = [cfg EXCEPT !.exempt_list = @ \ evicted]

\* The end of checkAndPrunePool.  Probes the deadline cut off stay undone.
ProbedKeepsRemoved == [i \in IP |->
    IF pool[i] = Absent THEN Absent
    ELSE IF round.checked[i] # Absent THEN round.checked[i]
    ELSE IF failures[i] > 0 THEN Failing
    ELSE pool[i]]
Probed == [i \in IP |->
    IF pool[i] = Absent \/ i \in round.removed THEN Absent
    ELSE IF round.checked[i] # Absent THEN round.checked[i]
    ELSE IF failures[i] > 0 THEN Failing
    ELSE pool[i]]

Prune(expired, due) ==
    /\ MuFree /\ pc["maintain"] = "probing"
    /\ LET gone == round.removed \cap In(pool)
           evicted == Evicted(expired, recovery \cup gone)
           new == Without(Probed, evicted)
       IN  /\ ObservePinned(expired, recovery \cup gone)
           /\ pool' = new
           /\ healthy' = Merge(pool, healthy, new)
           /\ failures' = [i \in IP |-> IF i \in gone THEN 0 ELSE failures[i]]
           /\ recovery' = (recovery \cup gone) \ evicted
           /\ cooling' = (cooling \cup (gone \ recovery)) \ evicted
           /\ recoveryOK' = [i \in IP |-> IF i \in gone \cup evicted THEN 0
                                          ELSE recoveryOK[i]]
           /\ eligible' = Without(eligible, gone \cup evicted)
           /\ round' = [NoRound EXCEPT
                 !.count = Size(new),
                 !.dns = SyncAfterChange(new, round.removed, due),
                 !.urgent = Listed(syncedIPs) \cap round.removed # {}]
           /\ IF round.removed # {} \/ ~PrefixOf(Probed, pool) \/ evicted # {}
              THEN Hold("maintain", new) /\ Goto("maintain", "pruned")
              ELSE UNCHANGED out /\ Goto("maintain", "recover")
    /\ todo' = [todo EXCEPT !["maintain"] = {}]
    /\ UNCHANGED <<paused, booting, inProgress, dnsVars, proxyPool, scan>>

\* checkRecoveryPool copies the recovery pool and probes what has cooled down.
RecoverableAtOnce == recovery
Recoverable == recovery \ cooling

RecoverBegins ==
    /\ MuFree /\ pc["maintain"] = "recover"
    /\ todo' = [todo EXCEPT !["maintain"] = Recoverable]
    /\ round' = [round EXCEPT !.okBefore = recoveryOK]
    /\ Goto("maintain", IF recovery = {} THEN "decide" ELSE "reprobing")
    /\ UNCHANGED <<cfg, paused, booting, poolVars, recoveryVars, pinVars,
                   inProgress, dnsVars, proxyPool, out, scan>>

Reprobing(i) ==
    /\ MuFree /\ pc["maintain"] = "reprobing"
    /\ i \in todo["maintain"]
    /\ todo' = [todo EXCEPT !["maintain"] = @ \ {i}]
    /\ UNCHANGED <<cfg, paused, booting, poolVars, recovery, cooling, pinVars,
                   inProgress, dnsVars, proxyPool, pc, out, scan>>

ReprobeFails(i) ==
    /\ Reprobing(i)
    /\ recoveryOK' = [recoveryOK EXCEPT ![i] = 0]
    /\ UNCHANGED round

\* The success is added to the count the round started from.
ReprobeSucceeds(i, level) ==
    /\ Reprobing(i)
    /\ LET successes == Counted(round.okBefore[i], RecoverySuccesses)
       IN  /\ recoveryOK' = [recoveryOK EXCEPT ![i] = successes]
           /\ round' = [round EXCEPT !.checked[i] =
                           IF successes = RecoverySuccesses THEN level ELSE @]

NoneRecovered(expired) ==
    /\ MuFree /\ pc["maintain"] = "reprobing"
    /\ In(round.checked) = {}
    /\ LET evicted == Evicted(expired, recovery)
       IN  /\ ObservePinned(expired, recovery)
           /\ recovery' = recovery \ evicted
           /\ cooling' = cooling \ evicted
           /\ recoveryOK' = [i \in IP |-> IF i \in evicted THEN 0 ELSE recoveryOK[i]]
           /\ eligible' = Without(eligible, evicted)
    /\ todo' = [todo EXCEPT !["maintain"] = {}]
    /\ Goto("maintain", "decide")
    /\ UNCHANGED <<paused, booting, poolVars, inProgress, dnsVars, proxyPool, out,
                   scan, round>>

\* Some recovered: a.mu is taken for all of them, fastest first.
AdmitBegins ==
    /\ MuFree /\ pc["maintain"] = "reprobing"
    /\ In(round.checked) # {}
    /\ round' = [round EXCEPT !.before = pool]
    /\ todo' = [todo EXCEPT !["maintain"] = {}]
    /\ Goto("maintain", "admitting")
    /\ UNCHANGED <<cfg, paused, booting, poolVars, recoveryVars, pinVars,
                   inProgress, dnsVars, proxyPool, out, scan>>

\* Known to the pool already, or pinned: its entry is replaced or appended.
AdmitDirectly(c, level) ==
    /\ pool[c] # Absent \/ c \in Pinned
    /\ pool' = With(pool, c, level)
    /\ recovery' = recovery \ {c}
    /\ cooling' = cooling \ {c}
    /\ recoveryOK' = [recoveryOK EXCEPT ![c] = 0]
    /\ round' = [round EXCEPT !.checked[c] = Absent, !.changed = TRUE]
    /\ UNCHANGED eligible

AdmitIntoSpace(c, level) ==
    /\ pool[c] = Absent /\ c \notin Pinned
    /\ Size(Dynamic(pool)) < PoolSize
    /\ recovery' = recovery \ {c}
    /\ cooling' = cooling \ {c}
    /\ recoveryOK' = [recoveryOK EXCEPT ![c] = 0]
    /\ pool' = Compose(pool, recovery', With(Dynamic(pool), c, level))
    /\ eligible' = EligibleAfter(pool, eligible)
    /\ round' = [round EXCEPT !.checked[c] = Absent, !.changed = TRUE]

\* A full pool exchanges its slowest dynamic address for a faster candidate,
\* and the slowest one starts to cool.
AdmitForWorst(c, level) ==
    /\ pool[c] = Absent /\ c \notin Pinned
    /\ Size(Dynamic(pool)) >= PoolSize
    /\ LET worst == Worst(Dynamic(pool))
           dynamic == With(Without(Dynamic(pool), {worst}), c, level)
       IN  /\ level < pool[worst]
           /\ recovery' = (recovery \ {c}) \cup {worst}
           /\ cooling' = (cooling \ {c}) \cup ({worst} \ recovery)
           /\ recoveryOK' = [recoveryOK EXCEPT ![c] = 0, ![worst] = 0]
           /\ pool' = Compose(pool, recovery', dynamic)
           /\ eligible' = EligibleAfter(pool, With(eligible, worst, Absent))
    /\ round' = [round EXCEPT !.checked[c] = Absent, !.changed = TRUE]

AdmitRefused(c, level) ==
    /\ pool[c] = Absent /\ c \notin Pinned
    /\ Size(Dynamic(pool)) >= PoolSize
    /\ level >= pool[Worst(Dynamic(pool))]
    /\ round' = [round EXCEPT !.checked[c] = Absent]
    /\ UNCHANGED <<pool, recoveryVars, eligible>>

Admit ==
    /\ pc["maintain"] = "admitting"
    /\ In(round.checked) # {}
    /\ LET c == Best(round.checked)
           level == round.checked[c]
       IN  \/ AdmitDirectly(c, level) \/ AdmitIntoSpace(c, level)
           \/ AdmitForWorst(c, level) \/ AdmitRefused(c, level)
    /\ UNCHANGED <<cfg, paused, booting, healthy, failures, observed, cooled,
                   inProgress, dnsVars, proxyPool, pc, out, todo, scan>>

\* The end of that critical section.
AdmitEnds(due) ==
    /\ pc["maintain"] = "admitting"
    /\ In(round.checked) = {}
    /\ IF round.changed
       THEN LET new == Compose(pool, recovery, Dynamic(pool))
            IN  /\ pool' = new
                /\ healthy' = Merge(round.before, healthy, new)
                /\ eligible' = EligibleAfter(pool, eligible)
                /\ Hold("maintain", new)
                /\ Goto("maintain", "admitted")
                /\ round' = [NoRound EXCEPT
                      !.count = round.count, !.urgent = round.urgent,
                      !.dns = round.dns \/
                          (/\ DesiredDNS(round.before) # DesiredDNS(new)
                           /\ SyncAfterChange(new, {}, due))]
       ELSE /\ Goto("maintain", "decide")
            /\ round' = [round EXCEPT !.before = EmptyPool]
            /\ UNCHANGED <<pool, healthy, eligible, out>>
    /\ UNCHANGED <<cfg, paused, booting, failures, recoveryVars, observed, cooled,
                   inProgress, dnsVars, proxyPool, todo, scan>>

\* A sync is put off while a scan is in progress, unless an address that DNS
\* publishes was removed.
Decide ==
    /\ MuFree /\ pc["maintain"] = "decide"
    /\ Goto("maintain", IF round.dns /\ (~inProgress \/ round.urgent)
                        THEN "sync" ELSE "judge")
    /\ round' = [NoRound EXCEPT !.count = round.count]
    /\ UNCHANGED <<cfg, paused, booting, poolVars, recoveryVars, pinVars,
                   inProgress, dnsVars, proxyPool, out, todo, scan>>

\* Too few healthy addresses: a health rescan, unless one is running.
Judge ==
    /\ MuFree /\ pc["maintain"] = "judge"
    /\ round' = NoRound
    /\ IF round.count < MinHealthyCount /\ ~inProgress /\ MayScan
          /\ "health" \in Reasons
       THEN ScanBegins("health") /\ UNCHANGED booting
       ELSE /\ Goto("maintain", "idle")
            /\ UNCHANGED <<cfg, paused, booting, poolVars, recoveryVars, pinVars,
                           inProgress, dnsVars, proxyPool, out, todo, scan>>

(***************************************************************************)
(* Time and the user.                                                      *)
(***************************************************************************)
CooldownElapses(i) ==
    /\ i \in cooling
    /\ cooling' = cooling \ {i}
    /\ UNCHANGED <<cfg, paused, booting, poolVars, recovery, recoveryOK, pinVars,
                   inProgress, dnsVars, proxyPool, pc, out, todo, scan, round>>

ToggleScanPause ==
    /\ MuFree /\ Pausing
    /\ paused' = ~paused
    /\ UNCHANGED <<cfg, booting, poolVars, recoveryVars, pinVars, inProgress,
                   dnsVars, proxyPool, pc, out, todo, scan, round>>

\* handleCFNatConfig writes the lists and reloads a.cfg; "clear all lists" saves
\* two empty ones.
SaveLists(h, lists) ==
    /\ MuFree /\ pc[h] = "idle"
    /\ lists # cfg
    /\ cfg' = lists
    /\ Goto(h, "eligibility")
    /\ UNCHANGED <<paused, booting, poolVars, recoveryVars, pinVars, inProgress,
                   dnsVars, proxyPool, out, todo, scan, round>>

\* applyBlacklistNow
ApplyBlacklist(h, due) ==
    /\ MuFree /\ pc[h] = "blacklist"
    /\ LET black == cfg.ip_blacklist
           removed == (In(pool) \cup recovery) \cap black
           new == Without(pool, black)
       IN  /\ pool' = new
           /\ healthy' = IF removed = {} THEN healthy ELSE Merge(pool, healthy, new)
           /\ failures' = [i \in IP |-> IF i \in In(pool) \cap black THEN 0 ELSE failures[i]]
           /\ recovery' = recovery \ black
           /\ cooling' = cooling \ black
           /\ recoveryOK' = [i \in IP |-> IF i \in recovery \cap black THEN 0
                                          ELSE recoveryOK[i]]
           /\ Hold(h, IF removed = {} THEN EmptyPool ELSE new)
           /\ Goto(h, IF removed = {} THEN "idle"
                      ELSE IF SyncAfterChange(new, removed, due) THEN "filteredDNS"
                      ELSE "filtered")
    /\ UNCHANGED <<cfg, paused, booting, pinVars, inProgress, dnsVars, proxyPool,
                   todo, scan, round>>

(***************************************************************************)
(* The system.                                                             *)
(***************************************************************************)
Batches == {b \in [IP -> {Absent} \cup Measured] : In(b) # {}}
Due == {LatencySync} \cup {FALSE}

RefreshStep(t) ==
    \/ Eligibility(t) \/ MergePinned(t)
    \/ \E i \in IP, level \in {Absent} \cup Measured : PinProbe(t, i, level)

SyncStep(t) == SyncBegins(t) \/ SyncReturns(t)

ScanStep ==
    \/ ScanPublishes \/ SyncStep("scan") \/ RefreshStep("scan")
    \/ ScanBase \/ ScanFails \/ ProgressInstall
    \/ \E batch \in Batches : ProgressFilter(batch)
    \/ ProgressSelect
    \/ FinalFilter \/ NothingUsable \/ FinalSelect \/ FinalInstall \/ ScanFinish

RoundStep ==
    \/ RoundPublishes \/ SyncStep("maintain")
    \/ \E i \in IP : ProbeFails(i) \/ ReprobeFails(i)
    \/ \E i \in IP, level \in Measured : ProbeSucceeds(i, level) \/ ReprobeSucceeds(i, level)
    \/ \E expired \in Expirable : NoneRecovered(expired) \/ \E due \in Due : Prune(expired, due)
    \/ RecoverBegins \/ AdmitBegins \/ Admit \/ \E due \in Due : AdmitEnds(due)
    \/ Decide \/ Judge

HandlerStep(h) ==
    \/ HandlerPublishes(h) \/ SyncStep(h) \/ RefreshStep(h)
    \/ \E due \in Due : ApplyBlacklist(h, due)

Tick == RetryTick \/ ScheduledTick \/ MonitorTick

Environment ==
    \/ WebScan \/ ToggleScanPause
    \/ \E i \in IP : CooldownElapses(i)
    \/ \E h \in Handler, lists \in Lists : SaveLists(h, lists)

Next ==
    \/ Startup \/ StartupRefused \/ Restart
    \/ Tick \/ ScanStep \/ RoundStep
    \/ \E h \in Handler : HandlerStep(h)
    \/ Environment

Spec == Init /\ [][Next]_vars

\* Goroutines run, tickers fire, probes, DNS calls and the service manager answer.
\* Go's select picks among ready tickers at random, so a retry tick that stays due
\* is served; DNS calls that are made again and again succeed at some time.
Fairness ==
    /\ WF_vars(ScanStep) /\ WF_vars(RoundStep)
    /\ \A h \in Handler : WF_vars(HandlerStep(h))
    /\ SF_vars(MonitorTick) /\ SF_vars(RetryTick)
    /\ WF_vars(Restart)
    /\ \A t \in Thread : SF_vars(SyncReturns(t) /\ synced')

FairSpec == Spec /\ Fairness

-----------------------------------------------------------------------------
(***************************************************************************)
(* Properties.                                                             *)
(***************************************************************************)

AtRest == \A t \in Thread : pc[t] = "idle"

\* A pool that a scan computed and has yet to install.
Drafted == pc["scan"] \in {"progress", "chosen"}

\* The way past the cooldown is the gap between the two critical sections in which
\* a scan computes a pool and installs it, and no other.  What it computes has no
\* cooling address, and nothing but the installation of an older draft ever brings
\* an address into the pool while it cools, or lets one start to cool that stays in
\* the pool: no round, exchange, eviction, list change or second scan.
CoolingStaysOut ==
    [][/\ ~Drafted /\ Drafted' => In(out'["scan"]) \cap recovery' = {}
       /\ In(pool') \cap recovery' \subseteq
              (In(pool) \cap recovery) \cup
              (IF Drafted /\ ~Drafted' THEN In(out["scan"]) ELSE {})]_vars

\* Without that gap, where no scan has a goroutine of its own, a cooling address is
\* never forwarded to (README, line 19: the results of a scan are filtered by the
\* recovery pool so that they do not bypass the cooldown).
CoolingNotForwarded == MuFree => In(pool) \cap recovery = {}

\* Somebody is about to publish what he composed.
Publishes(t) == pc[t] \in {"merged", "rebased", "progressed", "installed",
                           "pruned", "admitted", "filtered", "filteredDNS"}

\* The proxy forwards to a.pool in its order, or somebody is on the way with it.
Followed ==
    \/ SameOrder(proxyPool, pool)
    \/ \E t \in Thread : Publishes(t) /\ SameOrder(out[t], pool)
    \/ pc["maintain"] = "admitting" /\ round.changed

\* Every update reaches the proxy after a.mu was released, and some changes of the
\* pool are taken for none and not published.  Still the proxy loses the pool in two
\* ways only: an older pool is published after a newer one, or the base of a scan
\* comes out empty, which rescan does not publish.
Overtaken == \E t \in Thread :
    /\ Publishes(t) /\ ~Publishes(t)'
    /\ proxyPool' = out[t] /\ ~SameOrder(out[t], pool)
ProxyKeepsUp ==
    [][Followed => \/ Followed' \/ Overtaken
                   \/ pc["scan"] = "base" /\ In(pool') = {}
                   \/ pc'["scan"] = "panicked"]_vars

\* A saved blacklist takes its addresses out of what is forwarded to at once
\* (README, line 13).
BlacklistStopsForwarding == AtRest => In(proxyPool) \cap cfg.ip_blacklist = {}

\* Scans, batches and recovered addresses together never put more addresses that
\* are not pinned into the pool than pool_size.
PoolBounded == MuFree => Size(Dynamic(pool)) <= PoolSize

\* The only way from the recovery pool back into the forward pool: the cooldown is
\* over and the last recovery_successes probes succeeded.  For maintain alone: where a
\* scan has a goroutine of its own, see CoolingStaysOut and AdmissionEarned.
Earned(i) == i \notin cooling /\ recoveryOK[i] = RecoverySuccesses
RecoveryEarned ==
    [][\A i \in recovery \ In(pool) : i \in In(pool') => Earned(i)]_vars

\* The same for an address that leaves the recovery pool as it joins: what scans
\* and list changes do at the same time never makes maintain admit one early.  The
\* exception is an address that was in both pools when the admission began (see
\* CoolingStaysOut): a round may exchange it and take it back at once.
AdmissionEarned ==
    [][\A i \in recovery \ recovery' : i \in In(pool') \ In(pool) =>
          Earned(i) \/ i \in In(round.before)]_vars

\* With nothing to forward to, a scan starts again unless the user paused scans:
\* no flag, lock, panic or lost tick keeps the service empty for ever.
ScansAgain ==
    In(pool) = {} ~> In(pool) # {} \/ pc["scan"] \notin {"idle", "panicked"} \/ paused

\* DNS publishes the pool again and again: a sync that failed is repeated as long
\* as there is something to publish.
DNSCatchesUp == []<>(synced \/ Listed(DesiredDNS(pool)) = {})

\* No scan pushes a pinned address out of the pool.
PinnedStay ==
    [][pc["scan"] # pc'["scan"] /\ pc["maintain"] = "scanning" =>
         In(pool) \cap Pinned \subseteq In(pool')]_vars

\* A health rescan that is not faster keeps the healthy addresses and fills up to
\* pool_size (README, line 19).
HealthyKept ==
    [][pc["scan"] = "filter" /\ pc'["scan"] = "chosen" /\ scan.reason = "health"
         /\ In(scan.base) # {} =>
         LET valid == Only(scan.results, scan.valid)
         IN  \/ valid[Best(valid)] < scan.base[Best(scan.base)]
             \/ In(Top(scan.base, PoolSize)) \ (recovery \cup cfg.ip_blacklist)
                    \subseteq In(out'["scan"])]_vars

\* The process survives: a scan whose results are all cooling leaves the pool to
\* the next retry (app.go:427, README line 26).
NeverPanics == pc["scan"] # "panicked"

\* Once a list was saved, DNS does not go on publishing an address that the
\* blacklist took out of the pool while there is another one to publish (README,
\* line 223: DNS follows at once when a synced address is removed).
BlacklistReachesDNS ==
    AtRest /\ synced /\ Listed(DesiredDNS(pool)) # {} =>
        Listed(syncedIPs) \cap cfg.ip_blacklist \subseteq In(pool)

-----------------------------------------------------------------------------
(***************************************************************************)
(* What the proofs show inductive (ForwardPoolSafety_proofs).              *)
(***************************************************************************)

\* For PoolBounded, when no address stops being pinned.
BoundInv ==
    /\ Size(Dynamic(pool)) <= PoolSize
    /\ Drafted => Size(Dynamic(out["scan"])) <= PoolSize

\* For AdmissionEarned: what the recovery round knows of its candidates stays
\* true, whatever others do to the recovery pool during its probes.
EarnedInv ==
    /\ pc["maintain"] \notin {"probing", "reprobing", "admitting"} =>
          In(round.checked) = {}
    /\ pc["maintain"] = "reprobing" =>
          /\ todo["maintain"] \cap In(round.checked) = {}
          /\ todo["maintain"] \cap recovery \cap cooling = {}
          /\ \A i \in recovery \cap In(round.checked) : Earned(i)
    /\ pc["maintain"] = "admitting" =>
          /\ In(Dynamic(pool)) \cap In(round.checked) \subseteq In(round.before)
          /\ \A i \in recovery \cap In(round.checked) :
                Earned(i) \/ i \in In(round.before)

=============================================================================
