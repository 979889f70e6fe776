---------------------- MODULE ForwardPoolSafety_proofs ----------------------
(***************************************************************************)
(* What the pools of cfnat promise, proved for every configuration:        *)
(* pool_size and the cooldown are respected, a recovered address earned    *)
(* it, and the proxy follows the pool.  None of it depends on who scans.   *)
(*                                                                         *)
(* The first part says what a step of each goroutine does to the two       *)
(* pools; all but the last of the results need nothing else.               *)
(***************************************************************************)
EXTENDS ForwardPool_proofs

USE DEF poolVars, recoveryVars, pinVars, dnsVars

-----------------------------------------------------------------------------
(* Who is in the pools that App computes. *)

LEMMA ActiveMembers == ASSUME NEW p PROVE In(ActivePinned(p)) \subseteq Pinned
  BY DEF In, ActivePinned

LEMMA MembersWithout ==
  ASSUME NEW p, NEW S PROVE In(Without(p, S)) = In(p) \ S
  BY DEF In, Without

LEMMA ComposeMembers ==
  ASSUME NEW p, NEW cooler, NEW dynamic
  PROVE  In(Compose(p, cooler, dynamic)) \subseteq (Pinned \cup In(dynamic)) \ cooler
  <1> DEFINE rest == Without(dynamic, cfg.ip_blacklist)
             all == Union(ActivePinned(p), rest)
  <1>1. In(rest) \subseteq In(dynamic) BY MembersWithout
  <1>2. In(all) = In(ActivePinned(p)) \cup In(rest) BY Members
  <1>3. In(Compose(p, cooler, dynamic)) = In(all) \ cooler BY MembersWithout DEF Compose
  <1> QED BY <1>1, <1>2, <1>3, ActiveMembers

LEMMA DynamicMembers == ASSUME NEW p PROVE In(Dynamic(p)) = In(p) \ Pinned
  BY MembersWithout DEF Dynamic

-----------------------------------------------------------------------------
(* Where a step leaves the goroutines. *)

LEMMA Moved ==
  ASSUME PCTypeOK, NEW t \in Thread, NEW label, Goto(t, label)
  PROVE  /\ pc'[t] = label
         /\ \A u \in Thread : u # t => pc'[u] = pc[u]
  BY DEF PCTypeOK, Goto

LEMMA Held ==
  ASSUME TypeOK, NEW t \in Thread, NEW p, Hold(t, p)
  PROVE  /\ out'[t] = p
         /\ \A u \in Thread : u # t => out'[u] = out[u]
  BY DEF TypeOK, Hold

LEMMA ScanEnded ==
  ASSUME PCTypeOK, EndScan
  PROVE  /\ pc'["scan"] = "idle"
         /\ pc'["maintain"] = pc["maintain"] \/
              (pc["maintain"] = "scanning" /\ pc'["maintain"] = "idle")
  BY Threads DEF PCTypeOK, EndScan

(***************************************************************************)
(* The scan goroutine composes the pool again or installs what it drafted. *)
(***************************************************************************)
Recomposed == Compose(pool, recovery, Dynamic(pool))
Draft == {Compose(pool, recovery, p) : p \in {q \in Pool : Size(q) <= PoolSize}}

ScanFrame ==
    /\ UNCHANGED <<cfg, recoveryVars, round>>
    /\ todo'["maintain"] = todo["maintain"]
    /\ pc["scan"] # "idle"
    /\ \/ pc'["maintain"] = pc["maintain"]
       \/ pc["maintain"] = "scanning" /\ pc'["maintain"] = "idle" /\ pc'["scan"] = "idle"
    /\ pool' \in {pool, Recomposed} \/ (Drafted /\ pool' = out["scan"])
    /\ UNCHANGED pool \/ MuFree
    /\ Drafted' => out'["scan"] \in Draft /\ UNCHANGED pool
    /\ pc'["scan"] = "panicked" => In(pool') = {}

LEMMA ScanPublishesFrame == ASSUME TypeOK, ScanPublishes PROVE ScanFrame
  BY Threads, Moved DEF TypeOK, ScanPublishes, PublishThen, ScanFrame, Drafted

LEMMA ScanSyncFrame == ASSUME TypeOK, SyncStep("scan") PROVE ScanFrame
  <1>1. CASE SyncBegins("scan")
    BY <1>1, Threads, Moved DEF TypeOK, SyncBegins, ScanFrame, Drafted
  <1>2. CASE SyncReturns("scan")
    BY <1>2, Threads, ScanEnded DEF TypeOK, SyncReturns, ScanFrame, Drafted
  <1> QED BY <1>1, <1>2 DEF SyncStep

LEMMA ScanRefreshFrame == ASSUME TypeOK, RefreshStep("scan") PROVE ScanFrame
  <1>1. CASE Eligibility("scan")
    <2>1. todo'["maintain"] = todo["maintain"]
      BY <1>1, Threads DEF TypeOK, Eligibility
    <2> QED BY <1>1, <2>1, Threads, Moved DEF TypeOK, Eligibility, ScanFrame, Drafted
  <1>2. CASE MergePinned("scan")
    <2>1. todo'["maintain"] = todo["maintain"]
      BY <1>2, Threads DEF TypeOK, MergePinned
    <2>2. pool' \in {pool, Recomposed} BY <1>2 DEF MergePinned, Recomposed
    <2>3. Goto("scan", "merged") \/ Goto("scan", "base") BY <1>2 DEF MergePinned
    <2>4. MuFree /\ pc["scan"] = "pinning" /\ UNCHANGED <<cfg, recoveryVars, round>>
      BY <1>2 DEF MergePinned
    <2> QED BY <2>1, <2>2, <2>3, <2>4, Threads, Moved DEF TypeOK, ScanFrame, Drafted
  <1>3. ASSUME NEW i \in IP, NEW level, PinProbe("scan", i, level) PROVE ScanFrame
    <2>1. todo'["maintain"] = todo["maintain"] BY <1>3, Threads DEF TypeOK, PinProbe
    <2> QED BY <1>3, <2>1, Threads DEF TypeOK, PinProbe, ScanFrame, Drafted
  <1> QED BY <1>1, <1>2, <1>3 DEF RefreshStep

LEMMA ScanBaseFrame == ASSUME TypeOK, ScanBase PROVE ScanFrame
  <1>1. pool' = Recomposed BY DEF ScanBase, Recomposed
  <1>2. Goto("scan", "rebased") \/ Goto("scan", "scanning") BY DEF ScanBase
  <1>3. MuFree /\ pc["scan"] = "base" /\ UNCHANGED <<cfg, recoveryVars, round, todo>>
    BY DEF ScanBase
  <1> QED BY <1>1, <1>2, <1>3, Threads, Moved DEF TypeOK, ScanFrame, Drafted

LEMMA ProgressFrame ==
  ASSUME TypeOK, (\E batch \in Batches : ProgressFilter(batch)) \/ ProgressSelect
                   \/ ProgressInstall
  PROVE  ScanFrame
  <1>1. ASSUME NEW batch \in Batches, ProgressFilter(batch) PROVE ScanFrame
    <2>1. Goto("scan", "scanning") \/ Goto("scan", "batch") BY <1>1 DEF ProgressFilter
    <2>2. /\ pc["scan"] = "scanning"
          /\ UNCHANGED <<cfg, recoveryVars, round, todo, pool>>
      BY <1>1 DEF ProgressFilter
    <2> QED BY <2>1, <2>2, Threads, Moved DEF TypeOK, ScanFrame, Drafted
  <1>2. CASE ProgressSelect
    <2> DEFINE selected == SelectProgress(HealthyDynamic, Only(scan.results, scan.valid),
                                          PoolSize)
    <2>1. selected \in Pool /\ Size(selected) <= PoolSize BY ProgressSelection
    <2>2. /\ Hold("scan", Compose(pool, recovery, selected))
          /\ Goto("scan", "scanning") \/ Goto("scan", "progress")
          /\ pc["scan"] = "batch"
          /\ UNCHANGED <<cfg, recoveryVars, round, todo, pool>>
      BY <1>2 DEF ProgressSelect
    <2> HIDE DEF selected
    <2>3. out'["scan"] \in Draft BY <2>1, <2>2, Held, Threads DEF Draft
    <2> QED BY <2>2, <2>3, Threads, Moved DEF TypeOK, ScanFrame, Drafted
  <1>3. CASE ProgressInstall
    BY <1>3, Threads, Moved DEF TypeOK, ProgressInstall, ScanFrame, Drafted
  <1> QED BY <1>1, <1>2, <1>3

LEMMA FinalFrame ==
  ASSUME TypeOK, ScanFails \/ FinalFilter \/ NothingUsable \/ FinalSelect
                   \/ FinalInstall \/ ScanFinish
  PROVE  ScanFrame
  <1>1. CASE ScanFails \/ NothingUsable
    BY <1>1, ScanEnded DEF TypeOK, ScanFails, NothingUsable, ScanFrame, Drafted
  <1>2. CASE FinalFilter
    BY <1>2, Threads, Moved DEF TypeOK, FinalFilter, ScanFrame, Drafted
  <1>3. CASE FinalSelect
    <2>1. /\ Hold("scan", Chosen) /\ Goto("scan", "chosen")
          /\ pc["scan"] = "filter"
          /\ UNCHANGED <<cfg, recoveryVars, round, todo, pool>>
      BY <1>3 DEF FinalSelect
    <2>2. Chosen \in Draft BY FinalSelection DEF Chosen, Draft
    <2>3. out'["scan"] \in Draft BY <2>1, <2>2, Held, Threads
    <2> QED BY <2>1, <2>3, Threads, Moved DEF TypeOK, ScanFrame, Drafted
  <1>4. CASE FinalInstall
    <2>1. Goto("scan", "installed") \/ (Goto("scan", "panicked") /\ In(out["scan"]) = {})
      BY <1>4 DEF FinalInstall
    <2>2. /\ MuFree /\ pc["scan"] = "chosen" /\ pool' = out["scan"]
          /\ UNCHANGED <<cfg, recoveryVars, round, todo>>
      BY <1>4 DEF FinalInstall
    <2> QED BY <2>1, <2>2, Threads, Moved DEF TypeOK, ScanFrame, Drafted
  <1>5. CASE ScanFinish
    <2>1. /\ pc["scan"] = "finish"
          /\ UNCHANGED <<cfg, recoveryVars, round, todo, pool>>
      BY <1>5 DEF ScanFinish
    <2>2. CASE Goto("scan", "sync")
      BY <2>1, <2>2, Threads, Moved DEF TypeOK, ScanFrame, Drafted
    <2>3. CASE EndScan BY <2>1, <2>3, ScanEnded DEF TypeOK, ScanFrame, Drafted
    <2> QED BY <1>5, <2>2, <2>3 DEF ScanFinish
  <1> QED BY <1>1, <1>2, <1>3, <1>4, <1>5

LEMMA ScanStepFrame == ASSUME TypeOK, ScanStep PROVE ScanFrame
  BY ScanPublishesFrame, ScanSyncFrame, ScanRefreshFrame, ScanBaseFrame, ProgressFrame,
     FinalFrame DEF ScanStep

(***************************************************************************)
(* A handler composes the pool again or takes blacklisted addresses out of  *)
(* both pools.  Users and time touch the pools even less.                  *)
(***************************************************************************)
Untouched ==
    /\ pc'["scan"] = pc["scan"] /\ out'["scan"] = out["scan"]
    /\ pc'["maintain"] = pc["maintain"] /\ todo'["maintain"] = todo["maintain"]
    /\ UNCHANGED round

AsideFrame ==
    /\ Untouched
    /\ recovery' \subseteq recovery /\ cooling' \subseteq cooling
    /\ \A i \in recovery' : recoveryOK'[i] = recoveryOK[i]
    /\ \/ In(pool') \subseteq In(pool)
       \/ pool' = Recomposed /\ UNCHANGED recoveryVars
    /\ UNCHANGED <<cfg, pool>> \/ MuFree
    /\ Handler = {} => UNCHANGED <<cfg, pool, recovery>>

LEMMA HandlerPublishesFrame ==
  ASSUME TypeOK, NEW h \in Handler, HandlerPublishes(h) PROVE AsideFrame
  <1>1. PICK here, next : PublishThen(h, here, next) BY DEF HandlerPublishes
  <1>2. /\ Hold(h, EmptyPool) /\ Goto(h, next)
        /\ UNCHANGED <<cfg, recoveryVars, pool, todo, round>>
    BY <1>1 DEF PublishThen, Drop
  <1>3. Untouched BY <1>2, Threads, Moved, Held DEF TypeOK, Untouched
  <1> QED BY <1>2, <1>3 DEF AsideFrame

LEMMA HandlerSyncFrame ==
  ASSUME TypeOK, NEW h \in Handler, SyncStep(h) PROVE AsideFrame
  <1>1. /\ \E p, next : Hold(h, p) /\ Goto(h, next)
        /\ UNCHANGED <<cfg, recoveryVars, pool, todo, round>>
    BY Threads DEF SyncStep, SyncBegins, SyncReturns, Drop
  <1>2. Untouched BY <1>1, Threads, Moved, Held DEF TypeOK, Untouched
  <1> QED BY <1>1, <1>2 DEF AsideFrame

LEMMA HandlerRefreshFrame ==
  ASSUME TypeOK, NEW h \in Handler, RefreshStep(h) PROVE AsideFrame
  <1>1. CASE Eligibility(h)
    <2>1. todo'["maintain"] = todo["maintain"]
      BY <1>1, Threads DEF TypeOK, Eligibility
    <2>2. Untouched BY <1>1, <2>1, Threads, Moved DEF TypeOK, Eligibility, Untouched
    <2> QED BY <1>1, <2>2 DEF Eligibility, AsideFrame
  <1>2. CASE MergePinned(h)
    <2>1. todo'["maintain"] = todo["maintain"]
      BY <1>2, Threads DEF TypeOK, MergePinned
    <2>2. /\ pool' \in {pool, Recomposed}
          /\ \E p, next : Hold(h, p) /\ Goto(h, next)
          /\ MuFree /\ UNCHANGED <<cfg, recoveryVars, round>>
      BY <1>2 DEF MergePinned, Recomposed
    <2>3. Untouched BY <2>1, <2>2, Threads, Moved, Held DEF TypeOK, Untouched
    <2> QED BY <2>2, <2>3 DEF AsideFrame
  <1>3. ASSUME NEW i \in IP, NEW level, PinProbe(h, i, level) PROVE AsideFrame
    <2>1. todo'["maintain"] = todo["maintain"] BY <1>3, Threads DEF TypeOK, PinProbe
    <2> QED BY <1>3, <2>1 DEF PinProbe, AsideFrame, Untouched
  <1> QED BY <1>1, <1>2, <1>3 DEF RefreshStep

LEMMA ApplyBlacklistFrame ==
  ASSUME TypeOK, NEW h \in Handler, NEW due, ApplyBlacklist(h, due) PROVE AsideFrame
  <1> DEFINE black == cfg.ip_blacklist
  <1>1. /\ pool' = Without(pool, black)
        /\ recovery' = recovery \ black /\ cooling' = cooling \ black
        /\ recoveryOK' = [i \in IP |-> IF i \in recovery \cap black THEN 0
                                       ELSE recoveryOK[i]]
        /\ \E p, next : Hold(h, p) /\ Goto(h, next)
        /\ MuFree /\ UNCHANGED <<cfg, todo, round>>
    BY DEF ApplyBlacklist
  <1> HIDE DEF black
  <1>2. Untouched BY <1>1, Threads, Moved, Held DEF TypeOK, Untouched
  <1>3. In(pool') \subseteq In(pool) BY <1>1, MembersWithout
  <1>4. \A i \in recovery' : recoveryOK'[i] = recoveryOK[i] BY <1>1 DEF TypeOK
  <1> QED BY <1>1, <1>2, <1>3, <1>4 DEF AsideFrame

LEMMA HandlerStepFrame ==
  ASSUME TypeOK, NEW h \in Handler, HandlerStep(h) PROVE AsideFrame
  BY HandlerPublishesFrame, HandlerSyncFrame, HandlerRefreshFrame, ApplyBlacklistFrame
     DEF HandlerStep

LEMMA EnvironmentFrame ==
  ASSUME TypeOK, ToggleScanPause \/ StartupRefused
            \/ (\E i \in IP : CooldownElapses(i))
            \/ (\E h \in Handler, lists \in Lists : SaveLists(h, lists))
  PROVE  AsideFrame
  <1>1. CASE ToggleScanPause \/ StartupRefused
    BY <1>1 DEF ToggleScanPause, StartupRefused, AsideFrame, Untouched
  <1>2. ASSUME NEW i \in IP, CooldownElapses(i) PROVE AsideFrame
    BY <1>2 DEF CooldownElapses, AsideFrame, Untouched
  <1>3. ASSUME NEW h \in Handler, NEW lists \in Lists, SaveLists(h, lists)
        PROVE  AsideFrame
    BY <1>3, Threads, Moved DEF TypeOK, SaveLists, AsideFrame, Untouched
  <1> QED BY <1>1, <1>2, <1>3

(***************************************************************************)
(* The beginning of a scan empties the recovery pool or leaves it alone.   *)
(***************************************************************************)
BeginFrame(reason) ==
    /\ MuFree /\ reason \in Reasons
    /\ pc["scan"] = "idle" /\ pc'["scan"] = "eligibility"
    /\ pc'["maintain"] = IF reason \in OwnGoroutine THEN pc["maintain"] ELSE "scanning"
    /\ UNCHANGED <<cfg, pool, out, todo>>
    /\ recovery' = {} \/ UNCHANGED recoveryVars

LEMMA ScanBeginsFrame ==
  ASSUME TypeOK, NEW reason, ScanBegins(reason) PROVE BeginFrame(reason)
  BY Threads DEF TypeOK, PCTypeOK, ScanBegins, MayScan, BeginFrame

(***************************************************************************)
(* The steps of maintain before and after it changes a pool.  `Busy` are    *)
(* the places where it has probe results at hand.                          *)
(***************************************************************************)
Busy == {"probing", "reprobing", "admitting"}

ReprobesBegin ==
    /\ pc["maintain"] = "recover" /\ pc'["maintain"] = "reprobing"
    /\ round'.checked = round.checked
    /\ todo'["maintain"] = recovery \ cooling
    /\ UNCHANGED recoveryVars

Reprobes(i) ==
    /\ pc["maintain"] = "reprobing" /\ pc'["maintain"] = "reprobing"
    /\ i \in todo["maintain"] /\ todo'["maintain"] = todo["maintain"] \ {i}
    /\ UNCHANGED <<recovery, cooling>>
    /\ \A j \in IP \ {i} : recoveryOK'[j] = recoveryOK[j]
    /\ \/ UNCHANGED round
       \/ /\ recoveryOK'[i] = RecoverySuccesses
          /\ In(round'.checked) \subseteq In(round.checked) \cup {i}

ReprobesEnd ==
    /\ pc["maintain"] = "reprobing" /\ pc'["maintain"] = "admitting"
    /\ round'.checked = round.checked /\ round'.before = pool
    /\ UNCHANGED <<cfg, recoveryVars>>

RoundFrame ==
    /\ \/ /\ pc'["maintain"] \notin Busy
          /\ \/ In(round'.checked) = {}
             \/ round'.checked = round.checked /\ pc["maintain"] \notin Busy
       \/ pc'["maintain"] = "probing"
       \/ ReprobesBegin \/ ReprobesEnd \/ \E i \in IP : Reprobes(i)
    /\ UNCHANGED pool
    /\ pc'["scan"] = pc["scan"] /\ out'["scan"] = out["scan"]
    /\ pc["maintain"] # "scanning" /\ pc'["maintain"] # "scanning"
    /\ recovery' \subseteq recovery

LEMMA PublishesFrame == ASSUME TypeOK, RoundPublishes PROVE RoundFrame
  BY Threads, Moved, Held
     DEF TypeOK, RoundPublishes, PublishThen, Drop, RoundFrame, Busy

LEMMA RoundSyncFrame == ASSUME TypeOK, SyncStep("maintain") PROVE RoundFrame
  <1>1. CASE SyncBegins("maintain")
    BY <1>1, Threads, Moved, Held DEF TypeOK, SyncBegins, RoundFrame, Busy
  <1>2. CASE SyncReturns("maintain")
    <2>1. /\ Hold("maintain", EmptyPool) /\ Goto("maintain", "judge")
          /\ pc["maintain"] = "syncing"
          /\ UNCHANGED <<pool, recovery, round>>
      BY <1>2 DEF SyncReturns, Drop, AfterSync
    <2> QED BY <2>1, Threads, Moved, Held DEF TypeOK, RoundFrame, Busy
  <1> QED BY <1>1, <1>2 DEF SyncStep

LEMMA ProbesFrame ==
  ASSUME TypeOK, \/ \E i \in IP : ProbeFails(i)
                 \/ \E i \in IP, level \in Measured : ProbeSucceeds(i, level)
  PROVE  RoundFrame
  BY DEF ProbeFails, ProbeSucceeds, Probing, RoundFrame

LEMMA ReprobesFrame ==
  ASSUME TypeOK, \/ \E i \in IP : ReprobeFails(i)
                 \/ \E i \in IP, level \in Measured : ReprobeSucceeds(i, level)
  PROVE  RoundFrame
  <1>1. ASSUME NEW i \in IP, Reprobing(i)
        PROVE  /\ pc["maintain"] = "reprobing" /\ UNCHANGED <<pool, recovery, cooling, pc, out>>
               /\ i \in todo["maintain"] /\ todo'["maintain"] = todo["maintain"] \ {i}
    BY <1>1, Threads DEF TypeOK, Reprobing
  <1>2. ASSUME NEW i \in IP, ReprobeFails(i) PROVE Reprobes(i)
    BY <1>1, <1>2 DEF ReprobeFails, Reprobes, TypeOK
  <1>3. ASSUME NEW i \in IP, NEW level \in Measured, ReprobeSucceeds(i, level)
        PROVE  Reprobes(i)
    <2> DEFINE successes == Counted(round.okBefore[i], RecoverySuccesses)
    <2>1. /\ Reprobing(i)
          /\ recoveryOK' = [recoveryOK EXCEPT ![i] = successes]
          /\ round' = [round EXCEPT !.checked[i] =
                          IF successes = RecoverySuccesses THEN level ELSE @]
      BY <1>3 DEF ReprobeSucceeds
    <2> HIDE DEF successes
    <2>2. round \in RoundLocals /\ round.checked \in Pool /\ recoveryOK \in [IP -> 0..RecoverySuccesses]
      BY DEF TypeOK, RoundLocals
    <2>3. CASE successes = RecoverySuccesses
      <3>1. round'.checked = [round.checked EXCEPT ![i] = level]
        BY <2>1, <2>2, <2>3 DEF RoundLocals
      <3>2. In(round'.checked) \subseteq In(round.checked) \cup {i}
        BY <2>2, <3>1 DEF In, Pool
      <3>3. recoveryOK'[i] = RecoverySuccesses BY <2>1, <2>2, <2>3
      <3> QED BY <1>1, <2>1, <2>2, <3>2, <3>3 DEF Reprobes
    <2>4. CASE successes # RecoverySuccesses
      <3>1. round' = round BY <2>1, <2>2, <2>4 DEF RoundLocals, Pool
      <3> QED BY <1>1, <2>1, <2>2, <3>1 DEF Reprobes
    <2> QED BY <2>3, <2>4
  <1>4. ASSUME NEW i \in IP, Reprobing(i), Reprobes(i) PROVE RoundFrame
    BY <1>1, <1>4 DEF RoundFrame
  <1> QED BY <1>2, <1>3, <1>4 DEF ReprobeFails, ReprobeSucceeds

LEMMA QuietRoundFrame ==
  ASSUME TypeOK, \/ MonitorTick \/ RecoverBegins \/ AdmitBegins \/ Decide
                 \/ \E expired \in Expirable : NoneRecovered(expired)
  PROVE  RoundFrame
  <1>1. CASE MonitorTick
    <2>1. /\ Goto("maintain", "recover") \/ Goto("maintain", "probing")
          /\ pc["maintain"] = "idle" /\ UNCHANGED <<pool, recovery, round, out>>
      BY <1>1 DEF MonitorTick, MaintainIdle
    <2> QED BY <2>1, Threads, Moved DEF TypeOK, RoundFrame, Busy
  <1>2. CASE RecoverBegins
    <2>1. /\ Goto("maintain", "decide") \/ Goto("maintain", "reprobing")
          /\ pc["maintain"] = "recover" /\ UNCHANGED <<pool, recoveryVars, out>>
          /\ round'.checked = round.checked
          /\ todo'["maintain"] = recovery \ cooling
      BY <1>2, Threads DEF RecoverBegins, Recoverable, TypeOK, RoundLocals
    <2>2. CASE Goto("maintain", "reprobing")
      BY <2>1, <2>2, Threads, Moved DEF TypeOK, RoundFrame, ReprobesBegin
    <2>3. CASE Goto("maintain", "decide")
      BY <2>1, <2>3, Threads, Moved DEF TypeOK, RoundFrame, Busy
    <2> QED BY <2>1, <2>2, <2>3
  <1>3. CASE AdmitBegins
    <2>1. /\ Goto("maintain", "admitting") /\ pc["maintain"] = "reprobing"
          /\ UNCHANGED <<cfg, pool, recoveryVars, out>>
          /\ round'.checked = round.checked /\ round'.before = pool
      BY <1>3 DEF AdmitBegins, TypeOK, RoundLocals
    <2> QED BY <2>1, Threads, Moved DEF TypeOK, RoundFrame, ReprobesEnd
  <1>4. CASE Decide
    <2>1. /\ Goto("maintain", "sync") \/ Goto("maintain", "judge")
          /\ pc["maintain"] = "decide" /\ UNCHANGED <<pool, recoveryVars, out>>
          /\ round'.checked = EmptyPool
      BY <1>4 DEF Decide, NoRound
    <2>2. In(round'.checked) = {} BY <2>1 DEF In, EmptyPool
    <2> QED BY <2>1, <2>2, Threads, Moved DEF TypeOK, RoundFrame, Busy
  <1>5. ASSUME NEW expired \in Expirable, NoneRecovered(expired) PROVE RoundFrame
    <2>1. /\ Goto("maintain", "decide") /\ pc["maintain"] = "reprobing"
          /\ UNCHANGED <<pool, out, round>> /\ recovery' \subseteq recovery
          /\ In(round.checked) = {}
      BY <1>5 DEF NoneRecovered
    <2> QED BY <2>1, Threads, Moved DEF TypeOK, RoundFrame, Busy
  <1> QED BY <1>1, <1>2, <1>3, <1>4, <1>5

\* Judge starts a scan or ends the round.
LEMMA JudgeFrame ==
  ASSUME TypeOK, Judge
  PROVE  round' = NoRound /\ (ScanBegins("health") \/ RoundFrame)
  <1>1. round' = NoRound /\ pc["maintain"] = "judge" BY DEF Judge
  <1>2. CASE ~ScanBegins("health")
    <2>1. Goto("maintain", "idle") /\ UNCHANGED <<pool, recovery, out>>
      BY <1>2 DEF Judge
    <2>2. In(round'.checked) = {} BY <1>1 DEF NoRound, In, EmptyPool
    <2> QED BY <1>1, <2>1, <2>2, Threads, Moved DEF TypeOK, RoundFrame, Busy
  <1> QED BY <1>1, <1>2

(***************************************************************************)
(* The steps of maintain that move addresses between the pools.            *)
(***************************************************************************)
Elsewhere ==
    /\ pc'["scan"] = pc["scan"] /\ out'["scan"] = out["scan"]
    /\ pc["maintain"] # "scanning" /\ pc'["maintain"] # "scanning"

PruneFrame ==
    /\ Elsewhere
    /\ pc'["maintain"] \in {"pruned", "recover"} /\ In(round'.checked) = {}
    /\ In(pool') \subseteq In(pool)
    /\ In(pool') \cap recovery' \subseteq recovery

LEMMA PruneStepFrame ==
  ASSUME TypeOK, NEW expired, NEW due, Prune(expired, due) PROVE PruneFrame
  <1> DEFINE gone == round.removed \cap In(pool)
             evicted == Evicted(expired, recovery \cup gone)
  <1>1. /\ pc["maintain"] = "probing"
        /\ pool' = Without(Probed, evicted)
        /\ recovery' = (recovery \cup gone) \ evicted
        /\ round'.checked = EmptyPool
        /\ \/ (\E p : Hold("maintain", p)) /\ Goto("maintain", "pruned")
           \/ UNCHANGED out /\ Goto("maintain", "recover")
    BY DEF Prune, NoRound
  <1>2. In(Probed) \subseteq In(pool) \ round.removed BY DEF In, Probed
  <1> HIDE DEF evicted
  <1>3. In(pool') \subseteq In(pool) \ round.removed BY <1>1, <1>2, MembersWithout
  <1>4. In(pool') \cap recovery' \subseteq recovery BY <1>1, <1>3
  <1>5. Elsewhere /\ pc'["maintain"] \in {"pruned", "recover"}
    BY <1>1, Threads, Moved, Held DEF TypeOK, Elsewhere
  <1>6. In(round'.checked) = {} BY <1>1 DEF In, EmptyPool
  <1> QED BY <1>3, <1>4, <1>5, <1>6 DEF PruneFrame

\* Beside those that are pinned now, p has no more addresses than pool_size.
Fits(p) == Cardinality(In(p) \ Pinned) <= PoolSize

LEMMA SmallerFits ==
  ASSUME NEW p, NEW S, IsFiniteSet(S), Cardinality(S) <= PoolSize,
         In(p) \ Pinned \subseteq S
  PROVE  Fits(p)
  <1>1. /\ IsFiniteSet(In(p) \ Pinned)
        /\ Cardinality(In(p) \ Pinned) <= Cardinality(S)
    BY FS_Subset
  <1>2. Cardinality(In(p) \ Pinned) \in Nat /\ Cardinality(S) \in Nat
    BY <1>1, FS_CardinalityType
  <1> QED BY <1>1, <1>2, LimitFacts DEF Fits

\* A candidate c that joins, perhaps in exchange for the addresses X.
Joins(c, X) ==
    /\ X \subseteq In(Dynamic(pool))
    /\ recovery' = (recovery \ {c}) \cup X
    /\ \A i \in recovery \ ({c} \cup X) :
          (i \in cooling' => i \in cooling) /\ recoveryOK'[i] = recoveryOK[i]
    /\ In(pool') \cap recovery' \subseteq In(pool) \cap recovery
    /\ In(pool') \subseteq In(pool) \cup Pinned \cup {c}
    /\ Fits(pool) => Fits(pool')

AdmitFrame(c) ==
    /\ c \in In(round.checked)
    /\ In(round'.checked) \subseteq In(round.checked) \ {c}
    /\ round'.before = round.before
    /\ pc["maintain"] = "admitting"
    /\ UNCHANGED <<cfg, pc, out, todo>>
    /\ UNCHANGED <<pool, recoveryVars>> \/ \E X : Joins(c, X)

LEMMA OneMore ==
  ASSUME NEW S, IsFiniteSet(S), NEW c
  PROVE  /\ IsFiniteSet(S \cup {c}) /\ Cardinality(S) \in Nat
         /\ Cardinality(S \cup {c}) \in Nat
         /\ Cardinality(S \cup {c}) <= Cardinality(S) + 1
  <1>1. Cardinality(S) \in Nat BY FS_CardinalityType
  <1>2. /\ IsFiniteSet(S \cup {c})
        /\ Cardinality(S \cup {c}) = IF c \in S THEN Cardinality(S) ELSE Cardinality(S) + 1
    BY FS_AddElement
  <1> QED BY <1>1, <1>2

LEMMA DirectJoins ==
  ASSUME TypeOK, NEW c \in IP, NEW level \in Level, AdmitDirectly(c, level)
  PROVE  Joins(c, {})
  <1>1. pool \in Pool BY DEF TypeOK
  <1>2. /\ pool' = With(pool, c, level)
        /\ recovery' = recovery \ {c} /\ cooling' = cooling \ {c}
        /\ recoveryOK' = [recoveryOK EXCEPT ![c] = 0]
        /\ c \in In(pool) \/ c \in Pinned
    BY DEF AdmitDirectly, In
  <1>3. In(pool') \subseteq In(pool) \cup {c} BY <1>1, <1>2, MembersOfWith
  <1>4. \A i \in recovery \ {c} : recoveryOK'[i] = recoveryOK[i] BY <1>2 DEF TypeOK
  <1>5. ASSUME Fits(pool) PROVE Fits(pool')
    <2>1. In(pool') \ Pinned \subseteq In(pool) \ Pinned BY <1>2, <1>3
    <2>2. IsFiniteSet(In(pool) \ Pinned) BY SizeType, FS_Subset
    <2> QED BY <1>5, <2>1, <2>2, SmallerFits DEF Fits
  <1> QED BY <1>2, <1>3, <1>4, <1>5 DEF Joins

LEMMA SpaceJoins ==
  ASSUME TypeOK, NEW c \in IP, NEW level \in Level, AdmitIntoSpace(c, level)
  PROVE  Joins(c, {})
  <1> DEFINE dynamic == Dynamic(pool)
             more == With(dynamic, c, level)
  <1>1. /\ pool' = Compose(pool, recovery', more)
        /\ recovery' = recovery \ {c} /\ cooling' = cooling \ {c}
        /\ recoveryOK' = [recoveryOK EXCEPT ![c] = 0]
        /\ Size(dynamic) < PoolSize
    BY DEF AdmitIntoSpace
  <1>2. dynamic \in Pool BY ComposedPool
  <1>3. In(dynamic) \subseteq In(pool) BY DynamicMembers
  <1> HIDE DEF dynamic
  <1>4. In(more) \subseteq In(dynamic) \cup {c} BY <1>2, MembersOfWith
  <1> HIDE DEF more
  <1>5. In(pool') \subseteq (Pinned \cup In(more)) \ recovery' BY <1>1, ComposeMembers
  <1>6. \A i \in recovery \ {c} : recoveryOK'[i] = recoveryOK[i] BY <1>1 DEF TypeOK
  <1>7. Fits(pool')
    <2>1. In(pool') \ Pinned \subseteq In(dynamic) \cup {c} BY <1>4, <1>5
    <2>2. IsFiniteSet(In(dynamic)) /\ Size(dynamic) \in Nat BY SizeType
    <2>3. /\ IsFiniteSet(In(dynamic) \cup {c})
          /\ Cardinality(In(dynamic) \cup {c}) <= Size(dynamic) + 1
          /\ Cardinality(In(dynamic) \cup {c}) \in Nat
      BY <2>2, OneMore DEF Size
    <2>4. Cardinality(In(dynamic) \cup {c}) <= PoolSize
      BY <1>1, <2>2, <2>3, LimitFacts
    <2> QED BY <2>1, <2>3, <2>4, SmallerFits
  <1> QED BY <1>1, <1>3, <1>4, <1>5, <1>6, <1>7 DEF Joins

LEMMA ExchangeJoins ==
  ASSUME TypeOK, NEW c \in IP, NEW level \in Level, AdmitForWorst(c, level)
  PROVE  Joins(c, {Worst(Dynamic(pool))})
  <1> DEFINE dynamic == Dynamic(pool)
             worst == Worst(dynamic)
             rest == Without(dynamic, {worst})
             more == With(rest, c, level)
  <1>1. /\ pool' = Compose(pool, recovery', more)
        /\ recovery' = (recovery \ {c}) \cup {worst}
        /\ cooling' = (cooling \ {c}) \cup ({worst} \ recovery)
        /\ recoveryOK' = [recoveryOK EXCEPT ![c] = 0, ![worst] = 0]
    BY DEF AdmitForWorst
  <1>2. dynamic \in Pool /\ rest \in Pool BY ComposedPool, PoolShapes
  <1>3. worst \in In(dynamic) /\ worst \in IP
    BY WorstDynamic, InType DEF AdmitForWorst
  <1>4. In(dynamic) \subseteq In(pool) BY DynamicMembers
  <1> HIDE DEF dynamic, worst
  <1>5. In(rest) = In(dynamic) \ {worst} BY MembersWithout
  <1> HIDE DEF rest
  <1>6. In(more) \subseteq In(rest) \cup {c} BY <1>2, MembersOfWith
  <1> HIDE DEF more
  <1>7. In(pool') \subseteq (Pinned \cup In(more)) \ recovery' BY <1>1, ComposeMembers
  <1>8. \A i \in recovery \ {c, worst} : recoveryOK'[i] = recoveryOK[i]
    BY <1>1, <1>3 DEF TypeOK
  <1>9. ASSUME Fits(pool) PROVE Fits(pool')
    <2>1. In(pool') \ Pinned \subseteq In(rest) \cup {c} BY <1>6, <1>7
    <2>2. IsFiniteSet(In(dynamic)) /\ Size(dynamic) \in Nat BY SizeType
    <2>3. IsFiniteSet(In(rest)) /\ Cardinality(In(rest)) = Size(dynamic) - 1
      BY <1>3, <1>5, <2>2, FS_RemoveElement DEF Size
    <2>4. /\ IsFiniteSet(In(rest) \cup {c})
          /\ Cardinality(In(rest) \cup {c}) <= Size(dynamic)
          /\ Cardinality(In(rest) \cup {c}) \in Nat
      <3>1. /\ IsFiniteSet(In(rest) \cup {c}) /\ Cardinality(In(rest)) \in Nat
            /\ Cardinality(In(rest) \cup {c}) \in Nat
            /\ Cardinality(In(rest) \cup {c}) <= Cardinality(In(rest)) + 1
        BY <2>3, OneMore, Zenon
      <3> QED BY <2>2, <2>3, <3>1
    <2>5. Size(dynamic) <= PoolSize BY <1>9, DynamicMembers DEF Fits, Size, dynamic
    <2>6. Cardinality(In(rest) \cup {c}) <= PoolSize BY <2>2, <2>4, <2>5, LimitFacts
    <2> QED BY <2>1, <2>4, <2>6, SmallerFits
  <1>10. Joins(c, {worst})
    BY <1>1, <1>3, <1>4, <1>5, <1>6, <1>7, <1>8, <1>9 DEF Joins, dynamic
  <1> QED BY <1>10 DEF worst, dynamic

LEMMA AdmitStepFrame ==
  ASSUME TypeOK, Admit PROVE AdmitFrame(Best(round.checked))
  <1> DEFINE c == Best(round.checked)
             level == round.checked[c]
  <1>1. /\ \/ AdmitDirectly(c, level) \/ AdmitIntoSpace(c, level)
           \/ AdmitForWorst(c, level) \/ AdmitRefused(c, level)
        /\ UNCHANGED <<cfg, pc, out, todo>> /\ pc["maintain"] = "admitting"
    BY DEF Admit
  <1>2. c \in IP /\ level \in Level BY Candidate DEF Admit
  <1>3. c \in In(round.checked)
    BY BestIsFirst DEF Admit, TypeOK, RoundLocals
  <1> HIDE DEF c, level
  <1>4. \/ round' = [round EXCEPT !.checked[c] = Absent, !.changed = TRUE]
        \/ round' = [round EXCEPT !.checked[c] = Absent]
    BY <1>1 DEF AdmitDirectly, AdmitIntoSpace, AdmitForWorst, AdmitRefused
  <1>5. round'.before = round.before /\ round'.checked = [round.checked EXCEPT ![c] = Absent]
    BY <1>4 DEF TypeOK, RoundLocals
  <1>6. In(round'.checked) \subseteq In(round.checked) \ {c}
    BY <1>2, <1>5 DEF In, TypeOK, RoundLocals, Pool
  <1>7. UNCHANGED <<pool, recoveryVars>> \/ \E X : Joins(c, X)
    BY <1>1, <1>2, DirectJoins, SpaceJoins, ExchangeJoins DEF AdmitRefused
  <1>8. AdmitFrame(c) BY <1>1, <1>3, <1>5, <1>6, <1>7 DEF AdmitFrame
  <1> QED BY <1>8 DEF c

AdmitEndsFrame ==
    /\ Elsewhere
    /\ pool' \in {pool, Recomposed} /\ UNCHANGED <<cfg, recoveryVars>>
    /\ pc'["maintain"] \in {"admitted", "decide"} /\ In(round'.checked) = {}

LEMMA AdmitEndsStepFrame ==
  ASSUME TypeOK, NEW due, AdmitEnds(due) PROVE AdmitEndsFrame
  <1>1. /\ pc["maintain"] = "admitting" /\ In(round.checked) = {}
        /\ UNCHANGED <<cfg, recoveryVars>>
    BY DEF AdmitEnds
  <1>2. /\ pool' \in {pool, Recomposed}
        /\ round'.checked \in {EmptyPool, round.checked}
        /\ \/ (\E p : Hold("maintain", p)) /\ Goto("maintain", "admitted")
           \/ UNCHANGED out /\ Goto("maintain", "decide")
    BY DEF AdmitEnds, Recomposed, NoRound, TypeOK, RoundLocals
  <1>3. In(round'.checked) = {} BY <1>1, <1>2 DEF In, EmptyPool
  <1> QED BY <1>1, <1>2, <1>3, Threads, Moved, Held DEF TypeOK, Elsewhere, AdmitEndsFrame

(***************************************************************************)
(* Every step is one of these.                                             *)
(***************************************************************************)
Begins ==
    \E reason : /\ BeginFrame(reason)
               /\ \/ UNCHANGED round /\ (reason \in OwnGoroutine \/ pc["maintain"] = "idle")
                  \/ round' = NoRound /\ reason \notin OwnGoroutine

LEMMA BeginnersFrame ==
  ASSUME TypeOK, Startup \/ WebScan \/ RetryTick \/ ScheduledTick PROVE Begins
  <1>1. CASE Startup BY <1>1, ScanBeginsFrame DEF Startup, Begins, OwnGoroutine
  <1>2. CASE WebScan BY <1>2, ScanBeginsFrame DEF WebScan, Begins, OwnGoroutine
  <1>3. CASE RetryTick BY <1>3, ScanBeginsFrame DEF RetryTick, MaintainIdle, Begins
  <1>4. CASE ScheduledTick BY <1>4, ScanBeginsFrame DEF ScheduledTick, MaintainIdle, Begins
  <1> QED BY <1>1, <1>2, <1>3, <1>4

LEMMA JudgeKinds == ASSUME TypeOK, Judge PROVE Begins \/ RoundFrame
  <1>1. CASE ScanBegins("health")
    BY <1>1, JudgeFrame, ScanBeginsFrame DEF Begins, OwnGoroutine
  <1> QED BY <1>1, JudgeFrame

LEMMA RoundKinds ==
  ASSUME TypeOK, RoundStep
  PROVE  RoundFrame \/ Begins \/ PruneFrame \/ (\E c : AdmitFrame(c)) \/ AdmitEndsFrame
  <1>1. CASE \E expired \in Expirable :
               NoneRecovered(expired) \/ \E due \in Due : Prune(expired, due)
    BY <1>1, QuietRoundFrame, PruneStepFrame
  <1>2. CASE Admit BY <1>2, AdmitStepFrame
  <1>3. CASE \E due \in Due : AdmitEnds(due) BY <1>3, AdmitEndsStepFrame
  <1> QED BY <1>1, <1>2, <1>3, PublishesFrame, RoundSyncFrame, ProbesFrame,
             ReprobesFrame, QuietRoundFrame, JudgeKinds
          DEF RoundStep

LEMMA StepKinds ==
  ASSUME TypeOK, Next
  PROVE  \/ ScanFrame \/ AsideFrame \/ Begins \/ Restart
         \/ RoundFrame \/ PruneFrame \/ (\E c : AdmitFrame(c)) \/ AdmitEndsFrame
  <1>1. CASE Environment BY <1>1, BeginnersFrame, EnvironmentFrame DEF Environment
  <1>2. CASE Tick BY <1>2, BeginnersFrame, QuietRoundFrame DEF Tick
  <1>3. CASE \E h \in Handler : HandlerStep(h) BY <1>3, HandlerStepFrame
  <1> QED BY <1>1, <1>2, <1>3, BeginnersFrame, EnvironmentFrame, ScanStepFrame, RoundKinds
          DEF Next

-----------------------------------------------------------------------------
(* pool_size. *)

\* No address stops being pinned while cfnat runs: nobody saves lists, and maintain
\* drops nobody from the exempt list.
PinsStand == ~DirectPool \/ (Handler = {} /\ ~EvictEnabled)

LEMMA ListsStand ==
  ASSUME TypeOK, ~EvictEnabled, RoundStep \/ MonitorTick PROVE UNCHANGED cfg
  <1>1. ASSUME NEW expired, NEW cooler, ObservePinned(expired, cooler)
        PROVE  UNCHANGED cfg
    <2>1. Evicted(expired, cooler) = {} BY DEF Evicted
    <2>2. cfg' = [cfg EXCEPT !.exempt_list = @ \ {}] BY <1>1, <2>1 DEF ObservePinned
    <2> QED BY <2>2 DEF TypeOK
  <1>2. ASSUME NEW expired, NEW due, Prune(expired, due) PROVE UNCHANGED cfg
    BY <1>1, <1>2 DEF Prune
  <1>3. ASSUME NEW expired, NoneRecovered(expired) PROVE UNCHANGED cfg
    BY <1>1, <1>3 DEF NoneRecovered
  <1>4. ASSUME NEW i \in IP, NEW level,
               ProbeFails(i) \/ ReprobeFails(i) \/ ProbeSucceeds(i, level)
                 \/ ReprobeSucceeds(i, level)
        PROVE  UNCHANGED cfg
    BY <1>4 DEF ProbeFails, ProbeSucceeds, Probing, ReprobeFails, ReprobeSucceeds, Reprobing
  <1>5. ASSUME NEW due, AdmitEnds(due) PROVE UNCHANGED cfg BY <1>5 DEF AdmitEnds
  <1>6. CASE \/ RoundPublishes \/ SyncStep("maintain") \/ MonitorTick
             \/ RecoverBegins \/ AdmitBegins \/ Admit \/ Decide \/ Judge
    BY <1>6 DEF RoundPublishes, PublishThen, SyncStep, SyncBegins, SyncReturns, MonitorTick,
                RecoverBegins, AdmitBegins, Admit, Decide, Judge, ScanBegins
  <1> QED BY <1>2, <1>3, <1>4, <1>5, <1>6 DEF RoundStep

LEMMA PinsStay == ASSUME PinsStand, TypeOK, Next PROVE Pinned' = Pinned
  <1>1. CASE ~DirectPool BY <1>1 DEF Pinned
  <1>2. CASE Handler = {} /\ ~EvictEnabled
    <2>1. CASE ScanStep BY <2>1, ScanStepFrame DEF ScanFrame, Pinned
    <2>2. CASE RoundStep \/ MonitorTick BY <1>2, <2>2, ListsStand DEF Pinned
    <2>3. CASE Startup \/ RetryTick \/ ScheduledTick \/ WebScan
      BY <2>3, BeginnersFrame DEF Begins, BeginFrame, Pinned
    <2>4. CASE \/ StartupRefused \/ ToggleScanPause \/ \E i \in IP : CooldownElapses(i)
      BY <1>2, <2>4, EnvironmentFrame DEF AsideFrame, Pinned
    <2>5. CASE Restart BY <2>5 DEF Restart, Pinned
    <2> QED BY <1>2, <2>1, <2>2, <2>3, <2>4, <2>5 DEF Next, Tick, Environment
  <1> QED BY <1>1, <1>2 DEF PinsStand

\* BoundInv in these terms, before and after a step.
LEMMA BoundFits ==
  BoundInv => Fits(pool) /\ (Drafted => Fits(out["scan"]))
  BY DynamicMembers DEF BoundInv, Fits, Size

LEMMA FitsBound ==
  ASSUME Pinned' = Pinned, Fits(pool'), Drafted' => Fits(out'["scan"])
  PROVE  BoundInv'
  <1>1. /\ In(Dynamic(pool))' = In(pool') \ Pinned
        /\ In(Dynamic(out["scan"]))' = In(out'["scan"]) \ Pinned
    BY MembersWithout DEF Dynamic
  <1> QED BY <1>1 DEF BoundInv, Size, Fits

LEMMA FewerFit ==
  ASSUME NEW p, NEW q, In(p) \subseteq In(q), Fits(q) PROVE Fits(p)
  <1>1. IsFiniteSet(In(q) \ Pinned) BY SizeType, FS_Subset
  <1> QED BY <1>1, SmallerFits DEF Fits

LEMMA BoundStep ==
  ASSUME PinsStand, TypeOK, BoundInv, Next PROVE BoundInv'
  <1>1. Pinned' = Pinned BY PinsStay
  <1>2. ASSUME NEW q, Size(q) <= PoolSize PROVE Fits(Compose(pool, recovery, q))
    <2>1. In(Compose(pool, recovery, q)) \ Pinned \subseteq In(q) BY ComposeMembers
    <2> QED BY <1>2, <2>1, SizeType, SmallerFits DEF Size
  <1>3. Fits(Recomposed) BY <1>2 DEF Recomposed, BoundInv
  <1>4. Fits(pool) /\ (Drafted => Fits(out["scan"])) BY BoundFits
  <1>5. CASE ScanFrame
    <2>1. Fits(pool') BY <1>3, <1>4, <1>5 DEF ScanFrame
    <2>2. ASSUME Drafted' PROVE Fits(out'["scan"])
      BY <1>2, <1>5, <2>2 DEF ScanFrame, Draft
    <2> QED BY <1>1, <2>1, <2>2, FitsBound
  <1>6. CASE AsideFrame
    <2>1. Fits(pool') BY <1>3, <1>4, <1>6, FewerFit DEF AsideFrame
    <2>2. Drafted' => Fits(out'["scan"]) BY <1>4, <1>6 DEF AsideFrame, Untouched, Drafted
    <2> QED BY <1>1, <2>1, <2>2, FitsBound
  <1>7. CASE Begins
    BY <1>1, <1>4, <1>7, FitsBound DEF Begins, BeginFrame, Drafted
  <1>8. CASE Restart
    <2>1. In(pool') = {} /\ pc'["scan"] = "idle"
      BY <1>8, Threads DEF Restart, In, EmptyPool, Idle
    <2>2. Fits(pool') BY <1>4, <2>1, FewerFit
    <2> QED BY <1>1, <2>1, <2>2, FitsBound DEF Drafted
  <1>9. CASE RoundFrame BY <1>1, <1>4, <1>9, FitsBound DEF RoundFrame, Drafted
  <1>10. CASE PruneFrame
    <2>1. Fits(pool') BY <1>4, <1>10, FewerFit DEF PruneFrame
    <2> QED BY <1>1, <1>4, <1>10, <2>1, FitsBound DEF PruneFrame, Elsewhere, Drafted
  <1>11. ASSUME NEW c, AdmitFrame(c) PROVE BoundInv'
    <2>1. Fits(pool') BY <1>4, <1>11 DEF AdmitFrame, Joins
    <2> QED BY <1>1, <1>4, <1>11, <2>1, FitsBound DEF AdmitFrame, Drafted
  <1>12. CASE AdmitEndsFrame
    <2>1. Fits(pool') BY <1>3, <1>4, <1>12 DEF AdmitEndsFrame
    <2> QED BY <1>1, <1>4, <1>12, <2>1, FitsBound DEF AdmitEndsFrame, Elsewhere, Drafted
  <1> QED BY <1>5, <1>6, <1>7, <1>8, <1>9, <1>10, <1>11, <1>12, StepKinds

\* As long as no address stops being pinned, whatever scans, rounds and handlers run
\* at the same time: no batch, scan result or recovered address puts more addresses
\* that are not pinned into the pool than pool_size.  Nothing is assumed of handlers
\* and evictions when there are no pinned addresses, or of where scans run.
THEOREM PoolSizeRespected == ASSUME PinsStand PROVE Spec => []PoolBounded
  <1>1. Init => BoundInv
    <2> SUFFICES ASSUME Init PROVE BoundInv OBVIOUS
    <2>1. In(pool) = {} /\ pc["scan"] = "idle"
      BY Threads DEF Init, In, EmptyPool, Idle
    <2>2. In(Dynamic(pool)) = {} BY <2>1, DynamicMembers
    <2>3. Size(Dynamic(pool)) = 0 BY <2>2, FS_EmptySet DEF Size
    <2> QED BY <2>1, <2>3, LimitFacts DEF BoundInv, Drafted
  <1>2. ASSUME TypeOK, BoundInv, [Next]_vars PROVE BoundInv'
    <2>1. CASE UNCHANGED vars
      BY <1>2, <2>1 DEF vars, BoundInv, Drafted, Dynamic, Pinned
    <2>2. CASE Next BY <1>2, <2>2, BoundStep
    <2> QED BY <1>2, <2>1, <2>2
  <1>3. BoundInv => PoolBounded BY DEF BoundInv, PoolBounded
  <1> QED BY <1>1, <1>2, <1>3, TypeCorrect, PTL DEF Spec

-----------------------------------------------------------------------------
(***************************************************************************)
(* The cooldown, whoever scans and whoever saves lists meanwhile.           *)
(***************************************************************************)
LEMMA RecomposedIsCool == In(Recomposed) \cap recovery = {}
  BY ComposeMembers DEF Recomposed

\* Whatever goroutines run: no pool is composed with a cooling address, and but for a
\* scan that installs what it computed earlier no step makes an address one that is
\* forwarded to and cools at once.
THEOREM CooldownIsRespected == Spec => CoolingStaysOut
  <1> DEFINE Keeps ==
        /\ ~Drafted /\ Drafted' => In(out'["scan"]) \cap recovery' = {}
        /\ In(pool') \cap recovery' \subseteq
               (In(pool) \cap recovery) \cup
               (IF Drafted /\ ~Drafted' THEN In(out["scan"]) ELSE {})
  <1>1. ASSUME TypeOK, Next PROVE Keeps
    <2>1. CASE ScanFrame
      <3>1. \A p \in Draft : In(p) \cap recovery = {} BY ComposeMembers DEF Draft
      <3>2. UNCHANGED recovery /\ (Drafted' => out'["scan"] \in Draft /\ UNCHANGED pool)
        BY <2>1 DEF ScanFrame
      <3>3. pool' \in {pool, Recomposed} \/ (Drafted /\ pool' = out["scan"])
        BY <2>1 DEF ScanFrame
      <3>4. CASE pool' \in {pool, Recomposed} BY <3>1, <3>2, <3>4, RecomposedIsCool
      <3>5. CASE Drafted /\ pool' = out["scan"]
        <4>1. CASE Drafted' BY <3>2, <3>5, <4>1
        <4>2. CASE ~Drafted' BY <3>2, <3>5, <4>2
        <4> QED BY <4>1, <4>2
      <3> QED BY <3>3, <3>4, <3>5
    <2>2. CASE AsideFrame
      <3>1. Drafted' <=> Drafted BY <2>2 DEF AsideFrame, Untouched, Drafted
      <3> QED BY <2>2, <3>1, RecomposedIsCool DEF AsideFrame
    <2>3. CASE Begins BY <2>3 DEF Begins, BeginFrame, Drafted
    <2>4. CASE Restart
      <3>1. recovery' = {} /\ pc'["scan"] = "idle" BY <2>4, Threads DEF Restart, Idle
      <3> QED BY <3>1 DEF Drafted
    <2>5. CASE RoundFrame BY <2>5 DEF RoundFrame, Drafted
    <2>6. CASE PruneFrame BY <2>6 DEF PruneFrame, Elsewhere, Drafted
    <2>7. ASSUME NEW c, AdmitFrame(c) PROVE Keeps
      <3>1. Drafted' <=> Drafted BY <2>7 DEF AdmitFrame, Drafted
      <3>2. In(pool') \cap recovery' \subseteq In(pool) \cap recovery
        BY <2>7 DEF AdmitFrame, Joins
      <3> QED BY <3>1, <3>2
    <2>8. CASE AdmitEndsFrame
      <3>1. Drafted' <=> Drafted BY <2>8 DEF AdmitEndsFrame, Elsewhere, Drafted
      <3> QED BY <2>8, <3>1, RecomposedIsCool DEF AdmitEndsFrame
    <2> QED BY <1>1, <2>1, <2>2, <2>3, <2>4, <2>5, <2>6, <2>7, <2>8, StepKinds
  <1>2. Spec => [][Keeps]_vars BY <1>1, TypeCorrect, PTL DEF Spec
  <1> QED BY <1>2 DEF CoolingStaysOut

-----------------------------------------------------------------------------
(***************************************************************************)
(* Coming back from the recovery pool.                                     *)
(***************************************************************************)
LEMMA EarnedStep ==
  ASSUME TypeOK, EarnedInv, Next PROVE EarnedInv'
  <1> DEFINE known == In(round.checked)
             before == In(round.before)
  <1>1. pc["maintain"] \notin Busy => known = {} BY DEF EarnedInv, Busy
  <1>2. pc["maintain"] = "reprobing" =>
          /\ todo["maintain"] \cap known = {}
          /\ todo["maintain"] \cap recovery \cap cooling = {}
          /\ \A i \in recovery \cap known : Earned(i)
    BY DEF EarnedInv
  <1>3. pc["maintain"] = "admitting" =>
          /\ In(Dynamic(pool)) \cap known \subseteq before
          /\ \A i \in recovery \cap known : Earned(i) \/ i \in before
    BY DEF EarnedInv
  <1>4. CASE ScanFrame
    <2>1. UNCHANGED <<round, recoveryVars, cfg>> /\ todo'["maintain"] = todo["maintain"]
      BY <1>4 DEF ScanFrame
    <2>2. CASE pc'["maintain"] = pc["maintain"]
      <3>1. pc["maintain"] = "admitting" => UNCHANGED pool BY <1>4 DEF ScanFrame, MuFree
      <3> QED BY <1>1, <1>2, <1>3, <2>1, <2>2, <3>1
              DEF EarnedInv, Earned, Busy, Dynamic, Pinned
    <2>3. CASE pc["maintain"] = "scanning" /\ pc'["maintain"] = "idle"
      BY <1>1, <2>1, <2>3 DEF EarnedInv, Busy
    <2> QED BY <1>4, <2>2, <2>3 DEF ScanFrame
  <1>5. CASE AsideFrame
    <2>1. /\ pc'["maintain"] = pc["maintain"] /\ UNCHANGED round
          /\ todo'["maintain"] = todo["maintain"]
          /\ recovery' \subseteq recovery /\ cooling' \subseteq cooling
          /\ \A i \in recovery' : recoveryOK'[i] = recoveryOK[i]
      BY <1>5 DEF AsideFrame, Untouched
    <2>2. pc["maintain"] = "admitting" => UNCHANGED <<cfg, pool>>
      BY <1>5 DEF AsideFrame, MuFree
    <2> QED BY <1>1, <1>2, <1>3, <2>1, <2>2 DEF EarnedInv, Earned, Busy, Dynamic, Pinned
  <1>6. CASE Begins
    <2>1. PICK reason : /\ BeginFrame(reason)
                        /\ \/ /\ UNCHANGED round
                              /\ reason \in OwnGoroutine \/ pc["maintain"] = "idle"
                           \/ round' = NoRound /\ reason \notin OwnGoroutine
      BY <1>6 DEF Begins
    <2>2. pc["maintain"] # "admitting" BY <2>1 DEF BeginFrame, MuFree
    <2>3. CASE pc'["maintain"] = pc["maintain"] /\ UNCHANGED round
      BY <1>1, <1>2, <2>1, <2>2, <2>3 DEF BeginFrame, EarnedInv, Earned, Busy
    <2>4. CASE pc'["maintain"] = "scanning"
      <3>1. In(NoRound.checked) = {} BY DEF NoRound, In, EmptyPool
      <3>2. \/ In(round'.checked) = {}
            \/ UNCHANGED round /\ (reason \in OwnGoroutine \/ pc["maintain"] = "idle")
        BY <2>1, <3>1
      <3>3. reason \in OwnGoroutine => pc["maintain"] = "scanning"
        BY <2>1, <2>4 DEF BeginFrame
      <3>4. In(round'.checked) = {} BY <1>1, <3>2, <3>3 DEF Busy
      <3> QED BY <2>4, <3>4 DEF EarnedInv
    <2> QED BY <2>1, <2>3, <2>4 DEF BeginFrame
  <1>7. CASE Restart
    <2>1. pc'["maintain"] = "idle" /\ round'.checked = EmptyPool
      BY <1>7, Threads DEF Restart, Idle, NoRound
    <2> QED BY <2>1 DEF EarnedInv, In, EmptyPool
  <1>8. CASE RoundFrame
    <2>1. CASE pc'["maintain"] \notin Busy
      <3>1. In(round'.checked) = {} BY <1>1, <1>8, <2>1
            DEF RoundFrame, ReprobesBegin, Reprobes, ReprobesEnd, Busy
      <3> QED BY <2>1, <3>1 DEF EarnedInv, Busy
    <2>2. CASE pc'["maintain"] = "probing" BY <2>2 DEF EarnedInv
    <2>3. CASE ReprobesBegin
      BY <1>1, <2>3 DEF ReprobesBegin, EarnedInv, Busy
    <2>4. CASE ReprobesEnd
      <3>1. In(Dynamic(pool))' \subseteq In(pool) BY <1>8, <2>4, MembersWithout
            DEF RoundFrame, Dynamic
      <3> QED BY <1>2, <2>4, <3>1 DEF ReprobesEnd, EarnedInv, Earned
    <2>5. ASSUME NEW i \in IP, Reprobes(i) PROVE EarnedInv'
      <3>1. /\ pc["maintain"] = "reprobing" /\ pc'["maintain"] = "reprobing"
            /\ i \in todo["maintain"] /\ todo'["maintain"] = todo["maintain"] \ {i}
            /\ UNCHANGED <<recovery, cooling>>
            /\ \A j \in IP \ {i} : recoveryOK'[j] = recoveryOK[j]
        BY <2>5 DEF Reprobes
      <3>2. /\ In(round'.checked) \subseteq known \cup {i}
            /\ i \in In(round'.checked) => recoveryOK'[i] = RecoverySuccesses
        BY <1>2, <2>5, <3>1 DEF Reprobes
      <3>3. ASSUME NEW j \in recovery' \cap In(round'.checked) PROVE Earned(j)'
        <4>1. j \in IP BY InType
        <4> QED BY <1>2, <3>1, <3>2, <3>3, <4>1 DEF Earned
      <3>4. /\ todo'["maintain"] \cap In(round'.checked) = {}
            /\ todo'["maintain"] \cap recovery' \cap cooling' = {}
        BY <1>2, <3>1, <3>2
      <3> QED BY <3>1, <3>3, <3>4 DEF EarnedInv
    <2> QED BY <1>8, <2>1, <2>2, <2>3, <2>4, <2>5 DEF RoundFrame
  <1>9. CASE PruneFrame BY <1>9 DEF PruneFrame, EarnedInv
  <1>10. ASSUME NEW c, AdmitFrame(c) PROVE EarnedInv'
    <2>1. /\ In(round'.checked) \subseteq known \ {c} /\ round'.before = round.before
          /\ pc["maintain"] = "admitting" /\ UNCHANGED <<cfg, pc>>
      BY <1>10 DEF AdmitFrame
    <2>2. Pinned' = Pinned BY <2>1 DEF Pinned
    <2>3. CASE UNCHANGED <<pool, recoveryVars>>
      BY <1>3, <2>1, <2>2, <2>3 DEF EarnedInv, Earned, Dynamic
    <2>4. ASSUME NEW X, Joins(c, X) PROVE EarnedInv'
      <3>1. In(Dynamic(pool))' = In(pool') \ Pinned BY <2>2, MembersWithout DEF Dynamic
      <3>2. In(Dynamic(pool))' \subseteq In(Dynamic(pool)) \cup {c}
        BY <2>4, <3>1, DynamicMembers DEF Joins
      <3>3. In(Dynamic(pool))' \cap In(round'.checked) \subseteq before
        BY <1>3, <2>1, <3>2
      <3>4. ASSUME NEW i \in recovery' \cap In(round'.checked)
            PROVE  Earned(i)' \/ i \in before
        <4>1. CASE i \in X BY <1>3, <2>1, <2>4, <3>4, <4>1 DEF Joins
        <4>2. CASE i \notin X
          <5>1. i \in recovery \ ({c} \cup X) /\ i \in known
            BY <2>1, <2>4, <3>4, <4>2 DEF Joins
          <5>2. (i \in cooling' => i \in cooling) /\ recoveryOK'[i] = recoveryOK[i]
            BY <2>4, <5>1 DEF Joins
          <5> QED BY <1>3, <2>1, <5>1, <5>2 DEF Earned
        <4> QED BY <4>1, <4>2
      <3> QED BY <2>1, <3>3, <3>4 DEF EarnedInv
    <2> QED BY <1>10, <2>3, <2>4 DEF AdmitFrame
  <1>11. CASE AdmitEndsFrame BY <1>11 DEF AdmitEndsFrame, EarnedInv
  <1> QED BY <1>4, <1>5, <1>6, <1>7, <1>8, <1>9, <1>10, <1>11, StepKinds

LEMMA EarnedInvariant == Spec => []EarnedInv
  <1>1. Init => EarnedInv
    BY Threads DEF Init, Idle, NoRound, EarnedInv, In, EmptyPool
  <1>2. ASSUME TypeOK, EarnedInv, [Next]_vars PROVE EarnedInv'
    <2>1. CASE UNCHANGED vars
      <3>1. UNCHANGED <<pc, todo, round, pool, recovery, cooling, recoveryOK, cfg>>
        BY <2>1 DEF vars
      <3> QED BY <1>2, <3>1 DEF EarnedInv, Earned, Dynamic, Pinned
    <2>2. CASE Next BY <1>2, <2>2, EarnedStep
    <2> QED BY <1>2, <2>1, <2>2
  <1> QED BY <1>1, <1>2, TypeCorrect, PTL DEF Spec

\* Whoever runs beside it, maintain never takes an address from the recovery pool
\* into the forward pool whose cooldown runs or that has not answered
\* recovery_successes probes in a row, unless it was in both pools to begin with.
THEOREM AdmissionIsEarned == Spec => AdmissionEarned
  <1> DEFINE Move == \A i \in recovery \ recovery' : i \in In(pool') \ In(pool) =>
                        Earned(i) \/ i \in In(round.before)
  <1>1. ASSUME TypeOK, EarnedInv, [Next]_vars PROVE [Move]_vars
    <2>1. CASE Next
      <3> SUFFICES ASSUME NEW i \in recovery \ recovery', i \in In(pool') \ In(pool)
                   PROVE  Earned(i) \/ i \in In(round.before)
        OBVIOUS
      <3>1. ~ScanFrame BY DEF ScanFrame
      <3>2. ~AsideFrame BY DEF AsideFrame
      <3>3. ~Begins BY DEF Begins, BeginFrame
      <3>4. ~Restart BY DEF Restart, In, EmptyPool
      <3>5. ~RoundFrame BY DEF RoundFrame
      <3>6. ~PruneFrame BY DEF PruneFrame
      <3>7. ~AdmitEndsFrame BY DEF AdmitEndsFrame
      <3>8. PICK c : AdmitFrame(c)
        BY <1>1, <2>1, <3>1, <3>2, <3>3, <3>4, <3>5, <3>6, <3>7, StepKinds
      <3>9. i = c /\ i \in recovery \cap In(round.checked) /\ pc["maintain"] = "admitting"
        BY <3>8 DEF AdmitFrame, Joins
      <3> QED BY <1>1, <3>9 DEF EarnedInv
    <2> QED BY <1>1, <2>1
  <1>2. Spec => [][Move]_vars BY <1>1, EarnedInvariant, TypeCorrect, PTL DEF Spec
  <1> QED BY <1>2 DEF AdmissionEarned

-----------------------------------------------------------------------------
(***************************************************************************)
(* The proxy follows the pool.                                             *)
(***************************************************************************)
LEMMA SameOrderSelf == ASSUME NEW p PROVE SameOrder(p, p)
  BY DEF SameOrder

LEMMA SameOrderThrough ==
  ASSUME NEW p, NEW q, NEW r, SameOrder(p, q), SameOrder(r, q) PROVE SameOrder(p, r)
  BY DEF SameOrder

\* A pool with the same addresses that is a prefix is the pool.
LEMMA PrefixSameOrder ==
  ASSUME NEW p \in Pool, NEW q \in Pool, In(p) = In(q), PrefixOf(p, q)
  PROVE  SameOrder(p, q)
  <1> DEFINE S == In(p)
             P(i) == Cardinality(Ahead(p, S, i))
             Q(i) == Cardinality(Ahead(q, S, i))
  <1>1. S \in SUBSET IP BY InType
  <1>2. \A i \in S : P(i) = Q(i) BY DEF PrefixOf
  <1>3. SUFFICES ASSUME NEW i \in S, NEW j \in S PROVE Before(p, i, j) <=> Before(q, i, j)
    BY DEF SameOrder
  <1>4. P(i) \in Nat /\ P(j) \in Nat /\ P(i) = Q(i) /\ P(j) = Q(j)
    BY <1>1, <1>2, RankIsNat
  <1>5. /\ Before(p, i, j) => P(i) < P(j)
        /\ Before(p, j, i) => P(j) < P(i)
        /\ Before(q, i, j) => Q(i) < Q(j)
        /\ Before(q, j, i) => Q(j) < Q(i)
    <2> S \subseteq IP BY <1>1
    <2> QED BY <1>1, RanksDiffer
  <1>6. /\ ~Before(p, i, i) /\ ~Before(q, i, i)
        /\ i # j => (Before(p, i, j) <=> ~Before(p, j, i))
        /\ i # j => (Before(q, i, j) <=> ~Before(q, j, i))
    BY <1>1, OrderTotal
  <1> HIDE DEF S, P, Q
  <1> QED BY <1>4, <1>5, <1>6

\* The members of the pool stay members when probes change their latencies.
LEMMA ProbedMembers == In(Probed) = In(pool) \ round.removed
  <1>1. ASSUME NEW i \in IP PROVE (Probed[i] # Absent) <=> pool[i] # Absent /\ i \notin round.removed
    BY LevelFacts DEF Probed
  <1> QED BY <1>1 DEF In

\* Goroutine t neither held a pool nor disturbs those who do; the pool keeps its order.
LEMMA QuietKeeps ==
  ASSUME Followed, MuFree, NEW t, ~Publishes(t), SameOrder(pool', pool),
         UNCHANGED proxyPool,
         \A u \in Thread : Publishes(u) /\ u # t => pc'[u] = pc[u] /\ out'[u] = out[u]
  PROVE  Followed'
  <1>1. CASE SameOrder(proxyPool, pool)
    <2>1. SameOrder(proxyPool', pool') BY <1>1, SameOrderThrough
    <2> QED BY <2>1 DEF Followed
  <1>2. CASE \E u \in Thread : Publishes(u) /\ SameOrder(out[u], pool)
    <2>1. PICK u \in Thread : Publishes(u) /\ SameOrder(out[u], pool) BY <1>2
    <2>2. pc'[u] = pc[u] /\ out'[u] = out[u] BY <2>1
    <2>3. SameOrder(out'[u], pool') BY <2>1, <2>2, SameOrderThrough
    <2>4. Publishes(u)' BY <2>1, <2>2 DEF Publishes
    <2> QED BY <2>3, <2>4 DEF Followed
  <1> QED BY <1>1, <1>2 DEF Followed, MuFree

\* A step of t that leaves the pool alone.
LEMMA QuietStep ==
  ASSUME TypeOK, Followed, MuFree, NEW t \in Thread, ~Publishes(t),
         UNCHANGED pc \/ (\E label : Goto(t, label)) \/ (t = "scan" /\ EndScan),
         UNCHANGED out \/ (\E p : Hold(t, p)),
         UNCHANGED <<pool, proxyPool>>
  PROVE  Followed'
  <1>1. ASSUME NEW u \in Thread, Publishes(u), u # t PROVE pc'[u] = pc[u]
    <2>1. CASE UNCHANGED pc BY <2>1
    <2>2. CASE \E label : Goto(t, label) BY <1>1, <2>2, Moved DEF TypeOK
    <2>3. CASE t = "scan" /\ EndScan
      <3>1. u # "scan" /\ (u = "maintain" => pc[u] # "scanning")
        BY <1>1, <2>3 DEF Publishes
      <3> QED BY <2>3, <3>1 DEF EndScan, TypeOK, PCTypeOK
    <2> QED BY <2>1, <2>2, <2>3
  <1>2. ASSUME NEW u \in Thread, Publishes(u), u # t PROVE out'[u] = out[u]
    BY <1>2, Held
  <1> QED BY <1>1, <1>2, SameOrderSelf, QuietKeeps

\* A step of t that changes the pool and is to publish it.
LEMMA HoldKeeps ==
  ASSUME TypeOK, NEW t \in Thread, NEW label, Goto(t, label),
         label \in {"merged", "rebased", "progressed", "installed",
                    "pruned", "admitted", "filtered", "filteredDNS"},
         out'[t] = pool'
  PROVE  Followed'
  <1>1. Publishes(t)' BY Moved DEF TypeOK, Publishes
  <1>2. SameOrder(out'[t], pool') BY SameOrderSelf
  <1> QED BY <1>1, <1>2 DEF Followed

\* What every step does to a proxy that follows.
Kept == \/ Followed' \/ Overtaken
        \/ pc["scan"] = "base" /\ In(pool') = {}
        \/ pc'["scan"] = "panicked"

\* A publication: of the pool, or of one that another has overtaken.
LEMMA PublishKeeps ==
  ASSUME TypeOK, NEW t \in Thread, NEW here, NEW next, PublishThen(t, here, next),
         Publishes(t), next \in {"base", "scanning", "finish", "recover", "decide",
                                 "blacklist", "idle", "sync"}
  PROVE  Kept
  <1>1. proxyPool' = out[t] /\ UNCHANGED pool /\ Goto(t, next) BY DEF PublishThen
  <1>2. ~Publishes(t)' BY <1>1, Moved DEF TypeOK, Publishes
  <1>3. CASE SameOrder(out[t], pool) BY <1>1, <1>3 DEF Followed, Kept
  <1>4. CASE ~SameOrder(out[t], pool) BY <1>1, <1>2, <1>4 DEF Overtaken, Kept
  <1> QED BY <1>3, <1>4

LEMMA PublicationsKeep ==
  ASSUME TypeOK, ScanPublishes \/ RoundPublishes \/ \E h \in Handler : HandlerPublishes(h)
  PROVE  Kept
  <1>1. PICK t, here, next :
           /\ t \in Thread /\ PublishThen(t, here, next)
           /\ here \in {"merged", "rebased", "progressed", "installed",
                        "pruned", "admitted", "filtered", "filteredDNS"}
           /\ next \in {"base", "scanning", "finish", "recover", "decide",
                        "blacklist", "idle", "sync"}
    BY Threads DEF ScanPublishes, RoundPublishes, HandlerPublishes
  <1>2. Publishes(t) BY <1>1 DEF PublishThen, Publishes
  <1> QED BY <1>1, <1>2, PublishKeeps

LEMMA SyncKeeps ==
  ASSUME TypeOK, Followed, NEW t \in Thread, SyncStep(t) PROVE Followed'
  <1>1. CASE SyncBegins(t)
    BY <1>1, QuietStep DEF SyncBegins, Publishes
  <1>2. CASE SyncReturns(t)
    BY <1>2, QuietStep DEF SyncReturns, Drop, Publishes
  <1> QED BY <1>1, <1>2 DEF SyncStep

LEMMA RefreshKeeps ==
  ASSUME TypeOK, Followed, NEW t \in Thread, RefreshStep(t) PROVE Followed'
  <1>1. CASE Eligibility(t) BY <1>1, QuietStep DEF Eligibility, Publishes
  <1>2. CASE MergePinned(t)
    <2> DEFINE new == Compose(pool, recovery, Dynamic(pool))
               changed == ~SameOrder(pool, new)
               next == IF changed THEN "merged" ELSE IF t = "scan" THEN "base" ELSE "blacklist"
    <2>1. /\ MuFree /\ pc[t] = "pinning" /\ UNCHANGED proxyPool
          /\ pool' = IF changed THEN new ELSE pool
          /\ Hold(t, IF changed THEN new ELSE EmptyPool)
          /\ Goto(t, next)
      BY <1>2 DEF MergePinned
    <2> HIDE DEF new
    <2>2. CASE changed
      <3>1. out'[t] = pool' /\ Goto(t, "merged") BY <2>1, <2>2, Held
      <3> QED BY <3>1, HoldKeeps
    <2>3. CASE ~changed BY <2>1, <2>3, QuietStep DEF Publishes
    <2> QED BY <2>2, <2>3
  <1>3. ASSUME NEW i \in IP, NEW level, PinProbe(t, i, level) PROVE Followed'
    BY <1>3, QuietStep DEF PinProbe, Publishes
  <1> QED BY <1>1, <1>2, <1>3 DEF RefreshStep

LEMMA ScanBaseKeeps == ASSUME TypeOK, Followed, ScanBase PROVE Kept
  <1> DEFINE new == Compose(pool, recovery, Dynamic(pool))
  <1>1. /\ pc["scan"] = "base" /\ pool' = new /\ Hold("scan", new)
        /\ Goto("scan", IF In(new) = {} THEN "scanning" ELSE "rebased")
    BY DEF ScanBase
  <1> HIDE DEF new
  <1>2. CASE In(new) = {} BY <1>1, <1>2 DEF Kept
  <1>3. CASE In(new) # {}
    <2>1. out'["scan"] = pool' /\ Goto("scan", "rebased") BY <1>1, <1>3, Threads, Held
    <2> QED BY <2>1, Threads, HoldKeeps DEF Kept
  <1> QED BY <1>2, <1>3

LEMMA InstallKeeps ==
  ASSUME TypeOK, Followed, ProgressInstall \/ FinalInstall PROVE Kept
  <1>1. CASE ProgressInstall
    BY <1>1, Threads, HoldKeeps DEF ProgressInstall, Kept
  <1>2. CASE FinalInstall
    <2>1. pool' = out["scan"] /\ UNCHANGED out
          /\ (Goto("scan", "installed") \/ Goto("scan", "panicked"))
      BY <1>2 DEF FinalInstall
    <2>2. CASE Goto("scan", "installed") BY <2>1, <2>2, Threads, HoldKeeps DEF Kept
    <2>3. CASE Goto("scan", "panicked") BY <2>3, Threads, Moved DEF TypeOK, Kept
    <2> QED BY <2>1, <2>2, <2>3
  <1> QED BY <1>1, <1>2

LEMMA ScanStepKeeps == ASSUME TypeOK, Followed, ScanStep PROVE Kept
  <1>1. CASE ScanPublishes BY <1>1, PublicationsKeep
  <1>2. CASE SyncStep("scan") \/ RefreshStep("scan")
    BY <1>2, Threads, SyncKeeps, RefreshKeeps DEF Kept
  <1>3. CASE ScanBase BY <1>3, ScanBaseKeeps
  <1>4. CASE ProgressInstall \/ FinalInstall BY <1>4, InstallKeeps
  <1>5. CASE (\E batch \in Batches : ProgressFilter(batch)) \/ FinalFilter \/ FinalSelect
                \/ ProgressSelect
    <2>1. /\ MuFree /\ pc["scan"] \in {"scanning", "filter", "batch"}
          /\ \E label : Goto("scan", label)
          /\ UNCHANGED out \/ (\E p : Hold("scan", p))
          /\ UNCHANGED <<pool, proxyPool>>
      BY <1>5 DEF ProgressFilter, FinalFilter, FinalSelect, ProgressSelect
    <2> QED BY <2>1, Threads, QuietStep DEF Publishes, Kept
  <1>6. CASE ScanFails \/ NothingUsable \/ ScanFinish
    <2>1. /\ MuFree /\ pc["scan"] \in {"scanning", "filter", "finish"}
          /\ EndScan \/ \E label : Goto("scan", label)
          /\ UNCHANGED <<out, pool, proxyPool>>
      BY <1>6 DEF ScanFails, NothingUsable, ScanFinish
    <2> QED BY <2>1, Threads, QuietStep DEF Publishes, Kept
  <1> QED BY <1>1, <1>2, <1>3, <1>4, <1>5, <1>6 DEF ScanStep

\* A round takes a pool that only changed its latencies for the same one.
LEMMA PruneKeeps ==
  ASSUME TypeOK, Followed, NEW expired, NEW due, Prune(expired, due) PROVE Followed'
  <1> DEFINE gone == round.removed \cap In(pool)
             evicted == Evicted(expired, recovery \cup gone)
             new == Without(Probed, evicted)
             known == round.removed = {} /\ PrefixOf(Probed, pool) /\ evicted = {}
  <1>1. /\ MuFree /\ pc["maintain"] = "probing" /\ pool' = new /\ UNCHANGED proxyPool
        /\ ~known => Hold("maintain", new) /\ Goto("maintain", "pruned")
        /\ known => UNCHANGED out /\ Goto("maintain", "recover")
    BY DEF Prune
  <1>2. CASE ~known
    <2> HIDE DEF known, new
    <2>1. out'["maintain"] = pool' /\ Goto("maintain", "pruned")
      BY <1>1, <1>2, Threads, Held
    <2> QED BY <2>1, Threads, HoldKeeps
  <1>3. CASE known
    <2>1. new = Probed
      <3>1. \A i \in IP : new[i] = Probed[i] BY <1>3 DEF Without
      <3> QED BY <3>1, ProbedType DEF Without, Pool
    <2>2. In(Probed) = In(pool) BY <1>3, ProbedMembers
    <2>3. pool \in Pool BY DEF TypeOK
    <2>4. SameOrder(Probed, pool) BY <1>3, <2>2, <2>3, ProbedType, PrefixSameOrder
    <2>5. SameOrder(pool', pool) BY <1>1, <2>1, <2>4
    <2> HIDE DEF known, new
    <2>6. \A u \in Thread : u # "maintain" => pc'[u] = pc[u] /\ out'[u] = out[u]
      BY <1>1, <1>3, Threads, Moved DEF TypeOK
    <2> QED BY <1>1, <2>5, <2>6, Threads, QuietKeeps DEF Publishes
  <1> QED BY <1>2, <1>3

\* An admission that changed the pool says so, and is then held to be published.
LEMMA AdmitKeeps == ASSUME TypeOK, Followed, Admit PROVE Followed'
  <1> DEFINE c == Best(round.checked)
             level == round.checked[c]
  <1>1. /\ pc["maintain"] = "admitting" /\ UNCHANGED <<proxyPool, pc, out>>
        /\ \/ AdmitDirectly(c, level) \/ AdmitIntoSpace(c, level)
           \/ AdmitForWorst(c, level) \/ AdmitRefused(c, level)
    BY DEF Admit
  <1> HIDE DEF c, level
  <1>2. CASE AdmitRefused(c, level)
    <2>1. UNCHANGED pool /\ round'.changed = round.changed
      BY <1>2 DEF TypeOK, RoundLocals, AdmitRefused
    <2> QED BY <1>1, <2>1 DEF Followed, Publishes
  <1>3. CASE ~AdmitRefused(c, level)
    <2>1. round'.changed = TRUE
      BY <1>1, <1>3 DEF TypeOK, RoundLocals, AdmitDirectly, AdmitIntoSpace, AdmitForWorst
    <2> QED BY <1>1, <2>1 DEF Followed
  <1> QED BY <1>2, <1>3

LEMMA AdmitEndsKeeps ==
  ASSUME TypeOK, Followed, NEW due, AdmitEnds(due) PROVE Followed'
  <1> DEFINE new == Compose(pool, recovery, Dynamic(pool))
  <1>1. /\ pc["maintain"] = "admitting" /\ UNCHANGED proxyPool
        /\ round.changed => /\ pool' = new
                            /\ Hold("maintain", new) /\ Goto("maintain", "admitted")
        /\ ~round.changed => UNCHANGED <<pool, out>> /\ Goto("maintain", "decide")
    BY DEF AdmitEnds
  <1> HIDE DEF new
  <1>2. CASE round.changed
    <2>1. out'["maintain"] = pool' /\ Goto("maintain", "admitted")
      BY <1>1, <1>2, Threads, Held
    <2> QED BY <2>1, Threads, HoldKeeps
  <1>3. CASE ~round.changed
    <2>1. \A u \in Thread : u # "maintain" => pc'[u] = pc[u] /\ out'[u] = out[u]
      BY <1>1, <1>3, Threads, Moved DEF TypeOK
    <2>2. CASE SameOrder(proxyPool, pool) BY <1>1, <1>3, <2>2 DEF Followed
    <2>3. CASE \E u \in Thread : Publishes(u) /\ SameOrder(out[u], pool)
      <3>1. PICK u \in Thread : Publishes(u) /\ SameOrder(out[u], pool) BY <2>3
      <3>2. u # "maintain" BY <1>1, <3>1 DEF Publishes
      <3>3. Publishes(u)' /\ SameOrder(out'[u], pool')
        BY <1>1, <1>3, <2>1, <3>1, <3>2 DEF Publishes
      <3> QED BY <3>3 DEF Followed
    <2> QED BY <1>3, <2>2, <2>3 DEF Followed
  <1> QED BY <1>2, <1>3

\* A scan begins.
LEMMA BeginsKeep ==
  ASSUME TypeOK, Followed, NEW reason, ScanBegins(reason),
         reason \in OwnGoroutine \/ pc["maintain"] \in {"idle", "judge"}
  PROVE  Followed'
  <1>1. /\ MuFree /\ pc["scan"] = "idle" /\ UNCHANGED <<pool, proxyPool, out>>
        /\ pc' = [pc EXCEPT !["scan"] = "eligibility",
                    !["maintain"] = IF reason \in OwnGoroutine THEN @ ELSE "scanning"]
    BY DEF ScanBegins, MayScan
  <1>2. ASSUME NEW u \in Thread, Publishes(u) PROVE pc'[u] = pc[u]
    BY <1>1, <1>2 DEF TypeOK, PCTypeOK, Publishes
  <1>3. ~Publishes("scan") BY <1>1 DEF Publishes
  <1> QED BY <1>1, <1>2, <1>3, SameOrderSelf, QuietKeeps

LEMMA BeginnersKeep ==
  ASSUME TypeOK, Followed, Startup \/ WebScan \/ RetryTick \/ ScheduledTick
  PROVE  Followed'
  BY BeginsKeep DEF Startup, WebScan, RetryTick, ScheduledTick, MaintainIdle, OwnGoroutine

\* The maintain goroutine while it neither changes the pool nor is about to publish it.
LEMMA QuietRoundKeeps ==
  ASSUME TypeOK, Followed,
         \/ \E i \in IP : ProbeFails(i) \/ ReprobeFails(i)
         \/ \E i \in IP, level \in Measured : ProbeSucceeds(i, level) \/ ReprobeSucceeds(i, level)
         \/ \E expired : NoneRecovered(expired)
         \/ RecoverBegins \/ AdmitBegins \/ Decide \/ MonitorTick
  PROVE  Followed'
  <1>1. CASE \/ \E i \in IP : ProbeFails(i) \/ ReprobeFails(i)
             \/ \E i \in IP, level \in Measured :
                   ProbeSucceeds(i, level) \/ ReprobeSucceeds(i, level)
    <2>1. /\ MuFree /\ pc["maintain"] \in {"probing", "reprobing"}
          /\ UNCHANGED <<pool, proxyPool, pc, out>>
      BY <1>1 DEF ProbeFails, ProbeSucceeds, Probing, ReprobeFails, ReprobeSucceeds, Reprobing
    <2> QED BY <2>1, Threads, QuietStep DEF Publishes
  <1>2. CASE \/ \E expired : NoneRecovered(expired)
             \/ RecoverBegins \/ AdmitBegins \/ Decide \/ MonitorTick
    <2>1. /\ MuFree /\ pc["maintain"] \in {"idle", "recover", "reprobing", "decide"}
          /\ \E label : Goto("maintain", label)
          /\ UNCHANGED <<pool, proxyPool, out>>
      BY <1>2 DEF NoneRecovered, RecoverBegins, AdmitBegins, Decide, MonitorTick, MaintainIdle
    <2> QED BY <2>1, Threads, QuietStep DEF Publishes
  <1> QED BY <1>1, <1>2

LEMMA JudgeKeeps == ASSUME TypeOK, Followed, Judge PROVE Followed'
  <1>1. CASE ScanBegins("health") BY <1>1, BeginsKeep DEF Judge
  <1>2. CASE ~ScanBegins("health")
    <2>1. /\ MuFree /\ pc["maintain"] = "judge" /\ Goto("maintain", "idle")
          /\ UNCHANGED <<pool, proxyPool, out>>
      BY <1>2 DEF Judge
    <2> QED BY <2>1, Threads, QuietStep DEF Publishes
  <1> QED BY <1>1, <1>2

LEMMA RoundStepKeeps == ASSUME TypeOK, Followed, RoundStep PROVE Kept
  <1>1. CASE RoundPublishes BY <1>1, PublicationsKeep
  <1>2. CASE ~RoundPublishes
    <2>1. Followed'
      BY <1>2, Threads, SyncKeeps, QuietRoundKeeps, PruneKeeps, AdmitKeeps, AdmitEndsKeeps,
         JudgeKeeps
         DEF RoundStep
    <2> QED BY <2>1 DEF Kept
  <1> QED BY <1>1, <1>2

\* A blacklist that finds nothing leaves the pool as it is.
LEMMA ApplyBlacklistKeeps ==
  ASSUME TypeOK, Followed, NEW h \in Handler, NEW due, ApplyBlacklist(h, due)
  PROVE  Followed'
  <1> DEFINE black == cfg.ip_blacklist
             removed == (In(pool) \cup recovery) \cap black
             new == Without(pool, black)
             sync == SyncAfterChange(new, removed, due)
  <1>1. /\ MuFree /\ pc[h] = "blacklist" /\ UNCHANGED proxyPool
        /\ pool' = new
        /\ Hold(h, IF removed = {} THEN EmptyPool ELSE new)
        /\ Goto(h, IF removed = {} THEN "idle"
                   ELSE IF sync THEN "filteredDNS" ELSE "filtered")
    BY DEF ApplyBlacklist
  <1>2. removed = {} => new = pool
    <2>1. ASSUME removed = {}, NEW i \in IP PROVE new[i] = pool[i]
      BY <2>1 DEF Without, In
    <2> QED BY <2>1 DEF Without, TypeOK, Pool
  <1>3. h \in Thread BY Threads
  <1> HIDE DEF new, removed, sync
  <1>4. CASE removed = {} BY <1>1, <1>2, <1>3, <1>4, QuietStep DEF Publishes
  <1>5. CASE removed # {}
    <2>1. out'[h] = pool' /\ (Goto(h, "filteredDNS") \/ Goto(h, "filtered"))
      BY <1>1, <1>3, <1>5, Held
    <2> QED BY <1>3, <2>1, HoldKeeps
  <1> QED BY <1>4, <1>5

LEMMA HandlerStepKeeps ==
  ASSUME TypeOK, Followed, NEW h \in Handler, HandlerStep(h) PROVE Kept
  <1>1. CASE HandlerPublishes(h) BY <1>1, PublicationsKeep
  <1>2. CASE ~HandlerPublishes(h)
    <2>1. Followed'
      BY <1>2, Threads, SyncKeeps, RefreshKeeps, ApplyBlacklistKeeps DEF HandlerStep
    <2> QED BY <2>1 DEF Kept
  <1> QED BY <1>1, <1>2

LEMMA AsideKeeps ==
  ASSUME TypeOK, Followed,
         \/ StartupRefused \/ ToggleScanPause
         \/ \E i \in IP : CooldownElapses(i)
         \/ \E h \in Handler, lists \in Lists : SaveLists(h, lists)
  PROVE  Followed'
  <1>1. CASE StartupRefused \/ ToggleScanPause \/ \E i \in IP : CooldownElapses(i)
    <2>1. UNCHANGED <<pool, proxyPool, pc, out, round>>
      BY <1>1 DEF StartupRefused, ToggleScanPause, CooldownElapses
    <2> QED BY <2>1 DEF Followed, Publishes
  <1>2. ASSUME NEW h \in Handler, NEW lists \in Lists, SaveLists(h, lists) PROVE Followed'
    BY <1>2, Threads, QuietStep DEF SaveLists, Publishes
  <1> QED BY <1>1, <1>2

\* For any number of handlers and whoever scans: the proxy goes on forwarding to the
\* pool, or somebody is on the way with it, unless a publication that others overtook
\* ends late, or a scan finds nothing left of the pool it begins with.
THEOREM ProxyKeepsFollowing == Spec => ProxyKeepsUp
  <1> DEFINE Keeps == Followed => \/ Followed' \/ Overtaken
                                  \/ pc["scan"] = "base" /\ In(pool') = {}
                                  \/ pc'["scan"] = "panicked"
  <1>1. ASSUME TypeOK, Next, Followed PROVE Kept
    <2>1. CASE Startup \/ WebScan \/ RetryTick \/ ScheduledTick
      BY <1>1, <2>1, BeginnersKeep DEF Kept
    <2>2. CASE MonitorTick BY <1>1, <2>2, QuietRoundKeeps DEF Kept
    <2>3. CASE \/ StartupRefused \/ ToggleScanPause
               \/ \E i \in IP : CooldownElapses(i)
               \/ \E h \in Handler, lists \in Lists : SaveLists(h, lists)
      BY <1>1, <2>3, AsideKeeps DEF Kept
    <2>4. CASE Restart
      <3>1. SameOrder(proxyPool', pool') BY <2>4, SameOrderSelf DEF Restart
      <3> QED BY <3>1 DEF Followed, Kept
    <2>5. CASE ScanStep \/ RoundStep \/ \E h \in Handler : HandlerStep(h)
      BY <1>1, <2>5, ScanStepKeeps, RoundStepKeeps, HandlerStepKeeps
    <2> QED BY <1>1, <2>1, <2>2, <2>3, <2>4, <2>5 DEF Next, Tick, Environment
  <1>2. ASSUME TypeOK, Next PROVE Keeps BY <1>1, <1>2 DEF Kept
  <1>3. Spec => [][Keeps]_vars BY <1>2, TypeCorrect, PTL DEF Spec
  <1> QED BY <1>3 DEF ProxyKeepsUp

=============================================================================
