-------------------------- MODULE ForwardPool_proofs --------------------------
(***************************************************************************)
(* Proofs about ForwardPool for every finite set of addresses, every number *)
(* of Web handlers and every configuration that config.Validate accepts.   *)
(***************************************************************************)
EXTENDS ForwardPool, PoolOps_proofs

USE DEF poolVars, recoveryVars, pinVars, dnsVars

-----------------------------------------------------------------------------
(* Helpers of App. *)

LEMMA LimitFacts ==
  /\ PoolSize \in Nat \ {0} /\ HealthFailures \in Nat \ {0}
  /\ RecoverySuccesses \in Nat \ {0} /\ SyncCount \in Nat
  BY LimitsAssumption

LEMMA PinnedType == ASSUME TypeOK PROVE Pinned \in SUBSET IP
  BY DEF TypeOK, Pinned

LEMMA ActivePinnedType ==
  ASSUME TypeOK, NEW p \in Pool
  PROVE  ActivePinned(p) \in Pool
  <1>1. eligible \in Pool BY DEF TypeOK
  <1>2. \A i \in IP : p[i] \in Level /\ eligible[i] \in Level BY <1>1 DEF Pool
  <1> QED BY <1>2, LevelFacts DEF Pool, ActivePinned

LEMMA EligibleAfterType ==
  ASSUME NEW p \in Pool, NEW e \in Pool
  PROVE  EligibleAfter(p, e) \in Pool
  <1>1. \A i \in IP : p[i] \in Level /\ e[i] \in Level BY DEF Pool
  <1> QED BY <1>1, LevelFacts DEF Pool, EligibleAfter

LEMMA ComposeType ==
  ASSUME TypeOK, NEW p \in Pool, NEW dynamic \in Pool, NEW cooler
  PROVE  Compose(p, cooler, dynamic) \in Pool
  <1>1. ActivePinned(p) \in Pool BY ActivePinnedType
  <1>2. Without(dynamic, cfg.ip_blacklist) \in Pool BY PoolShapes
  <1> QED BY <1>1, <1>2, PoolShapes DEF Compose

LEMMA MergeType ==
  ASSUME NEW old, NEW ok, NEW new
  PROVE  Merge(old, ok, new) \in SUBSET IP
  BY InType DEF Merge

\* What a.pool, the healthy addresses and a.pinnedEligible become when the pool
\* is composed again.
LEMMA ComposedPool ==
  ASSUME TypeOK
  PROVE  /\ Dynamic(pool) \in Pool
         /\ Compose(pool, recovery, Dynamic(pool)) \in Pool
         /\ EligibleAfter(pool, eligible) \in Pool
         /\ HealthyDynamic \in Pool
  <1>1. pool \in Pool /\ eligible \in Pool BY DEF TypeOK
  <1>2. Dynamic(pool) \in Pool BY <1>1, PoolShapes DEF Dynamic
  <1>3. HealthyDynamic \in Pool BY <1>1, PoolShapes DEF HealthyDynamic
  <1> QED BY <1>1, <1>2, <1>3, ComposeType, EligibleAfterType

-----------------------------------------------------------------------------
(* Where the goroutines are, what they hold and what they still probe. *)

LEMMA Threads ==
  /\ "scan" \in Thread /\ "maintain" \in Thread /\ Handler \subseteq Thread
  /\ "scan" \notin Handler /\ "maintain" \notin Handler
  BY HandlerAssumption DEF Thread

LEMMA GotoScan ==
  ASSUME PCTypeOK, NEW label \in ScanPC, Goto("scan", label)
  PROVE  PCTypeOK'
  <1>1. \A t \in Thread : t # "scan" => pc'[t] = pc[t]
    BY Threads DEF PCTypeOK, Goto
  <1>2. pc'["scan"] = label BY Threads DEF PCTypeOK, Goto
  <1>3. pc' \in [Thread -> ScanPC \cup MaintainPC \cup HandlerPC]
    BY Threads DEF PCTypeOK, Goto
  <1> QED BY <1>1, <1>2, <1>3, Threads DEF PCTypeOK

LEMMA GotoMaintain ==
  ASSUME PCTypeOK, NEW label \in MaintainPC, Goto("maintain", label)
  PROVE  PCTypeOK'
  <1>1. \A t \in Thread : t # "maintain" => pc'[t] = pc[t]
    BY Threads DEF PCTypeOK, Goto
  <1>2. pc'["maintain"] = label BY Threads DEF PCTypeOK, Goto
  <1>3. pc' \in [Thread -> ScanPC \cup MaintainPC \cup HandlerPC]
    BY Threads DEF PCTypeOK, Goto
  <1> QED BY <1>1, <1>2, <1>3, Threads DEF PCTypeOK

LEMMA GotoHandler ==
  ASSUME PCTypeOK, NEW h \in Handler, NEW label \in HandlerPC, Goto(h, label)
  PROVE  PCTypeOK'
  <1>1. \A t \in Thread : t # h => pc'[t] = pc[t]
    BY Threads DEF PCTypeOK, Goto
  <1>2. pc'[h] = label BY Threads DEF PCTypeOK, Goto
  <1>3. pc' \in [Thread -> ScanPC \cup MaintainPC \cup HandlerPC]
    BY Threads DEF PCTypeOK, Goto
  <1> QED BY <1>1, <1>2, <1>3, Threads DEF PCTypeOK

\* The labels that several kinds of goroutines use.
LEMMA GotoShared ==
  ASSUME PCTypeOK, NEW t \in Thread, NEW label, Goto(t, label),
         t = "scan" => label \in ScanPC,
         t = "maintain" => label \in MaintainPC,
         t \in Handler => label \in HandlerPC
  PROVE  PCTypeOK'
  <1>1. t = "scan" \/ t = "maintain" \/ t \in Handler BY DEF Thread
  <1> QED BY <1>1, GotoScan, GotoMaintain, GotoHandler

LEMMA EndScanType ==
  ASSUME PCTypeOK, EndScan
  PROVE  PCTypeOK' /\ scan' \in ScanLocals
  <1>1. scan' \in ScanLocals
    BY EmptyIsPool DEF EndScan, NoScan, ScanLocals
  <1>2. PCTypeOK'
    BY Threads DEF PCTypeOK, EndScan, ScanPC, MaintainPC
  <1> QED BY <1>1, <1>2

LEMMA HoldType ==
  ASSUME TypeOK, NEW t \in Thread, NEW p \in Pool, Hold(t, p)
  PROVE  out' \in [Thread -> Pool]
  BY DEF TypeOK, Hold

LEMMA DropType ==
  ASSUME TypeOK, NEW t \in Thread, Drop(t)
  PROVE  out' \in [Thread -> Pool]
  BY HoldType, EmptyIsPool DEF Drop

LEMMA NoScanType == NoScan \in ScanLocals
  BY EmptyIsPool DEF NoScan, ScanLocals

LEMMA NoRoundType == NoRound \in RoundLocals
  <1>1. 0 \in 0..Cardinality(IP)
    BY IPAssumption, FS_CardinalityType
  <1>2. [i \in IP |-> 0] \in [IP -> 0..RecoverySuccesses] BY LimitFacts
  <1> QED BY <1>1, <1>2, EmptyIsPool DEF NoRound, RoundLocals

LEMMA CountsType ==
  /\ NoCounts \in [IP -> Nat]
  /\ NoCounts \in [IP -> 0..HealthFailures]
  /\ NoCounts \in [IP -> 0..RecoverySuccesses]
  BY LimitFacts DEF NoCounts

-----------------------------------------------------------------------------
(* Publications and DNS. *)

LEMMA PublishType ==
  ASSUME TypeOK, NEW t \in Thread, NEW here, NEW next, PublishThen(t, here, next),
         t = "scan" => next \in ScanPC,
         t = "maintain" => next \in MaintainPC,
         t \in Handler => next \in HandlerPC
  PROVE  TypeOK'
  <1>1. PCTypeOK' BY GotoShared DEF TypeOK, PublishThen
  <1>2. out' \in [Thread -> Pool] BY DropType DEF PublishThen
  <1>3. proxyPool' \in Pool BY DEF TypeOK, PublishThen
  <1> QED BY <1>1, <1>2, <1>3 DEF TypeOK, PublishThen

LEMMA ScanPublishesType == ASSUME TypeOK, ScanPublishes PROVE TypeOK'
  BY PublishType, Threads DEF ScanPublishes, ScanPC

LEMMA RoundPublishesType == ASSUME TypeOK, RoundPublishes PROVE TypeOK'
  BY PublishType, Threads DEF RoundPublishes, MaintainPC

LEMMA HandlerPublishesType ==
  ASSUME TypeOK, NEW h \in Handler, HandlerPublishes(h) PROVE TypeOK'
  BY PublishType, Threads DEF HandlerPublishes, HandlerPC

LEMMA SyncBeginsType ==
  ASSUME TypeOK, NEW t \in Thread, SyncBegins(t) PROVE TypeOK'
  <1>1. PCTypeOK' BY GotoShared DEF TypeOK, SyncBegins, ScanPC, MaintainPC, HandlerPC
  <1>2. out' \in [Thread -> Pool] BY HoldType DEF TypeOK, SyncBegins
  <1> QED BY <1>1, <1>2 DEF TypeOK, SyncBegins

LEMMA SyncReturnsType ==
  ASSUME TypeOK, NEW t \in Thread, SyncReturns(t) PROVE TypeOK'
  <1>1. PCTypeOK' /\ scan' \in ScanLocals
    <2>1. CASE t = "scan" BY <2>1, EndScanType DEF TypeOK, SyncReturns
    <2>2. CASE t # "scan"
      <3>1. Goto(t, AfterSync(t)) /\ UNCHANGED scan BY <2>2 DEF SyncReturns
      <3>2. t = "maintain" => AfterSync(t) \in MaintainPC BY DEF AfterSync, MaintainPC
      <3>3. t \in Handler => AfterSync(t) \in HandlerPC
        BY Threads DEF AfterSync, HandlerPC
      <3> QED BY <2>2, <3>1, <3>2, <3>3, GotoShared DEF TypeOK
    <2> QED BY <2>1, <2>2
  <1>2. out' \in [Thread -> Pool] BY DropType DEF SyncReturns
  <1>3. synced' \in BOOLEAN /\ syncedIPs' \in [IP -> Nat]
    <2>1. FirstOf(out[t], IP, SyncCount) \in [IP -> Nat] BY FirstOfType
    <2>2. \/ synced' = FALSE /\ syncedIPs' = syncedIPs
          \/ synced' = TRUE /\ syncedIPs' = FirstOf(out[t], IP, SyncCount)
      BY DEF SyncReturns
    <2> QED BY <2>1, <2>2 DEF TypeOK
  <1> QED BY <1>1, <1>2, <1>3 DEF TypeOK, SyncReturns

-----------------------------------------------------------------------------
(* refreshPinnedPool, in a scan or in a handler. *)

LEMMA EligibilityType ==
  ASSUME TypeOK, NEW t \in {"scan"} \cup Handler, Eligibility(t) PROVE TypeOK'
  <1>0. t \in Thread /\ t # "maintain" BY Threads
  <1>1. PCTypeOK' BY <1>0, GotoShared DEF TypeOK, Eligibility, ScanPC, HandlerPC
  <1>2. eligible' \in Pool
    <2>1. Only(eligible, Pinned) \in Pool BY PoolShapes DEF TypeOK
    <2>2. Without(Only(eligible, Pinned), recovery) \in Pool BY <2>1, PoolShapes
    <2> QED BY <2>1, <2>2 DEF Eligibility
  <1>3. todo' \in [Thread -> SUBSET IP] BY PinnedType DEF TypeOK, Eligibility
  <1> QED BY <1>1, <1>2, <1>3 DEF TypeOK, Eligibility

LEMMA PinProbeType ==
  ASSUME TypeOK, NEW t \in {"scan"} \cup Handler, NEW i \in IP,
         NEW level \in {Absent} \cup Measured, PinProbe(t, i, level)
  PROVE  TypeOK'
  <1>1. eligible' \in Pool BY PoolShapes, LevelFacts DEF TypeOK, PinProbe
  <1>2. todo' \in [Thread -> SUBSET IP] BY DEF TypeOK, PinProbe
  <1> QED BY <1>1, <1>2 DEF TypeOK, PinProbe, PCTypeOK

LEMMA MergePinnedType ==
  ASSUME TypeOK, NEW t \in {"scan"} \cup Handler, MergePinned(t) PROVE TypeOK'
  <1>0. t \in Thread /\ t # "maintain" BY Threads
  <1> DEFINE new == Compose(pool, recovery, Dynamic(pool))
             changed == ~SameOrder(pool, new)
             next == IF changed THEN "merged" ELSE IF t = "scan" THEN "base" ELSE "blacklist"
  <1>1. new \in Pool /\ EligibleAfter(pool, eligible) \in Pool BY ComposedPool
  <1>2. Merge(pool, healthy, new) \in SUBSET IP BY MergeType
  <1>3. /\ pool' = (IF changed THEN new ELSE pool)
        /\ healthy' = (IF changed THEN Merge(pool, healthy, new) ELSE healthy)
        /\ Hold(t, IF changed THEN new ELSE EmptyPool)
        /\ Goto(t, next)
        /\ eligible' = EligibleAfter(pool, eligible)
        /\ todo' = [todo EXCEPT ![t] = {}]
    BY DEF MergePinned
  <1>4. /\ t = "scan" => next \in ScanPC
        /\ t \in Handler => next \in HandlerPC
    BY Threads DEF ScanPC, HandlerPC
  <1> HIDE DEF new, changed, next
  <1>5. PCTypeOK' BY <1>0, <1>3, <1>4, GotoShared DEF TypeOK
  <1>6. out' \in [Thread -> Pool]
    <2>1. (IF changed THEN new ELSE EmptyPool) \in Pool BY <1>1, EmptyIsPool
    <2> QED BY <1>0, <1>3, <2>1, HoldType
  <1>7. pool' \in Pool /\ healthy' \in SUBSET IP /\ eligible' \in Pool
        /\ todo' \in [Thread -> SUBSET IP]
    BY <1>1, <1>2, <1>3 DEF TypeOK
  <1> QED BY <1>5, <1>6, <1>7 DEF TypeOK, MergePinned

-----------------------------------------------------------------------------
(* rescan. *)

LEMMA ScanBeginsType ==
  ASSUME TypeOK, NEW reason, ScanBegins(reason), booting' \in BOOLEAN,
         round' \in RoundLocals
  PROVE  TypeOK'
  <1>1. reason \in AllReasons BY ListsAssumption DEF ScanBegins
  <1>2. scan' \in ScanLocals
    BY <1>1, EmptyIsPool DEF ScanBegins, NoScan, ScanLocals
  <1>3. PCTypeOK'
    BY Threads DEF TypeOK, PCTypeOK, ScanBegins, ScanPC, MaintainPC
  <1>4. /\ recovery' \in SUBSET IP /\ cooling' \in SUBSET IP
        /\ recoveryOK' \in [IP -> 0..RecoverySuccesses]
    BY CountsType DEF TypeOK, ScanBegins, NoCounts
  <1> QED BY <1>2, <1>3, <1>4 DEF TypeOK, ScanBegins

\* A rescan begins: at startup, by a Web request or by a tick of maintain.
LEMMA BeginningsType ==
  ASSUME TypeOK, Startup \/ WebScan \/ RetryTick \/ ScheduledTick
  PROVE  TypeOK'
  <1>1. PICK reason \in AllReasons : ScanBegins(reason)
    BY DEF Startup, WebScan, RetryTick, ScheduledTick, AllReasons
  <1>2. booting' \in BOOLEAN /\ round' \in RoundLocals
    BY DEF TypeOK, Startup, WebScan, RetryTick, ScheduledTick
  <1> QED BY <1>1, <1>2, ScanBeginsType

LEMMA StartupRefusedType == ASSUME TypeOK, StartupRefused PROVE TypeOK'
  BY DEF TypeOK, PCTypeOK, StartupRefused

LEMMA ScanBaseType == ASSUME TypeOK, ScanBase PROVE TypeOK'
  <1> DEFINE new == Compose(pool, recovery, Dynamic(pool))
             next == IF In(new) = {} THEN "scanning" ELSE "rebased"
             banned == cfg.ip_blacklist \cup Pinned
  <1>1. /\ new \in Pool /\ EligibleAfter(pool, eligible) \in Pool
        /\ HealthyDynamic \in Pool
    BY ComposedPool
  <1>2. Merge(pool, healthy, new) \in SUBSET IP BY MergeType
  <1>3. banned \in SUBSET IP BY PinnedType DEF TypeOK
  <1>4. /\ pool' = new /\ healthy' = Merge(pool, healthy, new)
        /\ Hold("scan", new) /\ Goto("scan", next)
        /\ scan' = [scan EXCEPT !.base = HealthyDynamic, !.banned = banned]
        /\ eligible' = EligibleAfter(pool, eligible)
    BY DEF ScanBase
  <1>5. next \in ScanPC BY DEF ScanPC
  <1> HIDE DEF new, next, banned
  <1>6. PCTypeOK' BY <1>4, <1>5, GotoScan DEF TypeOK
  <1>7. out' \in [Thread -> Pool] BY <1>1, <1>4, HoldType, Threads
  <1>8. scan' \in ScanLocals BY <1>1, <1>3, <1>4 DEF TypeOK, ScanLocals
  <1> QED BY <1>1, <1>2, <1>4, <1>6, <1>7, <1>8 DEF TypeOK, ScanBase

LEMMA UsableType ==
  ASSUME NEW results PROVE Usable(results) \in SUBSET IP
  BY InType DEF Usable

LEMMA ProgressFilterType ==
  ASSUME TypeOK, NEW batch \in Batches, ProgressFilter(batch) PROVE TypeOK'
  <1> DEFINE results == Union(scan.results, batch)
             next == IF Usable(results) = {} THEN "scanning" ELSE "batch"
  <1>1. batch \in Pool /\ scan.results \in Pool
    <2>1. batch \in [IP -> {Absent} \cup Measured] BY DEF Batches
    <2>2. {Absent} \cup Measured \subseteq Level BY LevelFacts
    <2>3. batch \in Pool BY <2>1, <2>2 DEF Pool
    <2> QED BY <2>3 DEF TypeOK, ScanLocals
  <1>2. results \in Pool /\ Usable(results) \in SUBSET IP
    BY <1>1, PoolShapes, UsableType
  <1>3. /\ scan' = [scan EXCEPT !.results = results, !.valid = Usable(results)]
        /\ Goto("scan", next)
    BY DEF ProgressFilter
  <1>4. next \in ScanPC BY DEF ScanPC
  <1> HIDE DEF results, next
  <1>5. PCTypeOK' BY <1>3, <1>4, GotoScan DEF TypeOK
  <1>6. scan' \in ScanLocals BY <1>2, <1>3 DEF TypeOK, ScanLocals
  <1> QED BY <1>5, <1>6 DEF TypeOK, ProgressFilter

\* What the healthy addresses and the usable results of a batch select.
LEMMA ProgressSelection ==
  ASSUME TypeOK
  PROVE  LET selected == SelectProgress(HealthyDynamic, Only(scan.results, scan.valid), PoolSize)
         IN  /\ selected \in Pool /\ Size(selected) <= PoolSize
             /\ Compose(pool, recovery, selected) \in Pool
  <1>1. HealthyDynamic \in Pool BY ComposedPool
  <1>2. Only(scan.results, scan.valid) \in Pool
    BY PoolShapes DEF TypeOK, ScanLocals
  <1>3. PoolSize \in Nat BY LimitFacts
  <1> DEFINE selected == SelectProgress(HealthyDynamic, Only(scan.results, scan.valid), PoolSize)
  <1>4. selected \in Pool /\ Size(selected) <= PoolSize
    BY <1>1, <1>2, <1>3, ProgressIsBounded
  <1>5. pool \in Pool BY DEF TypeOK
  <1> HIDE DEF selected
  <1>6. Compose(pool, recovery, selected) \in Pool BY <1>4, <1>5, ComposeType
  <1> QED BY <1>4, <1>6 DEF selected

LEMMA ProgressSelectType == ASSUME TypeOK, ProgressSelect PROVE TypeOK'
  <1> DEFINE new == Compose(pool, recovery,
                SelectProgress(HealthyDynamic, Only(scan.results, scan.valid), PoolSize))
             next == IF In(new) = {} THEN "scanning" ELSE "progress"
  <1>1. new \in Pool BY ProgressSelection
  <1>2. EligibleAfter(pool, eligible) \in Pool BY ComposedPool
  <1>3. /\ Hold("scan", new) /\ Goto("scan", next)
        /\ scan' = [scan EXCEPT !.valid = IF In(new) = {} THEN {} ELSE @]
        /\ eligible' = EligibleAfter(pool, eligible)
    BY DEF ProgressSelect
  <1>4. next \in ScanPC BY DEF ScanPC
  <1> HIDE DEF new, next
  <1>5. PCTypeOK' BY <1>3, <1>4, GotoScan DEF TypeOK
  <1>6. scan' \in ScanLocals BY <1>3 DEF TypeOK, ScanLocals
  <1>7. out' \in [Thread -> Pool] BY <1>1, <1>3, HoldType, Threads
  <1> QED BY <1>2, <1>3, <1>5, <1>6, <1>7 DEF TypeOK, ProgressSelect

LEMMA ProgressInstallType == ASSUME TypeOK, ProgressInstall PROVE TypeOK'
  <1>1. pool' \in Pool BY Threads DEF TypeOK, ProgressInstall
  <1>2. healthy' \in SUBSET IP BY InType DEF ProgressInstall
  <1>3. failures' \in [IP -> 0..HealthFailures]
    BY LimitFacts DEF TypeOK, ProgressInstall
  <1>4. scan' \in ScanLocals BY DEF TypeOK, ProgressInstall, ScanLocals
  <1>5. PCTypeOK' BY GotoScan DEF TypeOK, ProgressInstall, ScanPC
  <1> QED BY <1>1, <1>2, <1>3, <1>4, <1>5 DEF TypeOK, ProgressInstall

LEMMA ScanFailsType ==
  ASSUME TypeOK, ScanFails \/ NothingUsable PROVE TypeOK'
  <1>1. PCTypeOK' /\ scan' \in ScanLocals
    BY EndScanType DEF TypeOK, ScanFails, NothingUsable
  <1> QED BY <1>1 DEF TypeOK, ScanFails, NothingUsable

LEMMA FinalFilterType == ASSUME TypeOK, FinalFilter PROVE TypeOK'
  <1>1. PCTypeOK' BY GotoScan DEF TypeOK, FinalFilter, ScanPC
  <1>2. scan' \in ScanLocals BY UsableType DEF TypeOK, FinalFilter, ScanLocals
  <1> QED BY <1>1, <1>2 DEF TypeOK, FinalFilter

LEMMA FinalSelection ==
  ASSUME TypeOK
  PROVE  /\ Selected \in Pool /\ Size(Selected) <= PoolSize
         /\ Chosen \in Pool
  <1>1. scan.base \in Pool /\ scan.valid \in SUBSET IP /\ scan.results \in Pool
    BY DEF TypeOK, ScanLocals
  <1>2. Only(scan.results, scan.valid) \in Pool BY <1>1, PoolShapes
  <1>3. FinalSize \in Nat /\ FinalSize <= PoolSize
    <2>1. IsFiniteSet(scan.valid) BY <1>1, IPAssumption, FS_Subset
    <2>2. Cardinality(scan.valid) \in Nat BY <2>1, FS_CardinalityType
    <2> QED BY <2>2, LimitFacts DEF FinalSize
  <1>4. Selected \in Pool /\ Size(Selected) <= FinalSize
    BY <1>1, <1>2, <1>3, SelectionIsBounded DEF Selected
  <1>5. Size(Selected) <= PoolSize
    <2>1. Size(Selected) \in Int BY SizeType
    <2> QED BY <1>3, <1>4, <2>1, LimitFacts
  <1>6. Chosen \in Pool BY <1>4, ComposeType DEF Chosen, TypeOK
  <1> QED BY <1>4, <1>5, <1>6

LEMMA FinalSelectType == ASSUME TypeOK, FinalSelect PROVE TypeOK'
  <1>1. PCTypeOK' BY GotoScan DEF TypeOK, FinalSelect, ScanPC
  <1>2. out' \in [Thread -> Pool]
    BY FinalSelection, HoldType, Threads DEF FinalSelect
  <1>3. eligible' \in Pool BY ComposedPool DEF FinalSelect
  <1> QED BY <1>1, <1>2, <1>3 DEF TypeOK, FinalSelect

LEMMA FinalInstallType == ASSUME TypeOK, FinalInstall PROVE TypeOK'
  <1>1. PCTypeOK' BY GotoScan DEF TypeOK, FinalInstall, ScanPC
  <1>2. pool' \in Pool BY Threads DEF TypeOK, FinalInstall
  <1>3. healthy' \in SUBSET IP BY InType DEF FinalInstall
  <1>4. failures' \in [IP -> 0..HealthFailures]
    BY LimitFacts DEF FinalInstall
  <1> QED BY <1>1, <1>2, <1>3, <1>4, NoScanType DEF TypeOK, FinalInstall

LEMMA ScanFinishType == ASSUME TypeOK, ScanFinish PROVE TypeOK'
  <1>1. PCTypeOK' /\ scan' \in ScanLocals
    <2>1. CASE SyncAfterScan
      BY <2>1, GotoScan DEF TypeOK, ScanFinish, ScanPC
    <2>2. CASE ~SyncAfterScan BY <2>2, EndScanType DEF TypeOK, ScanFinish
    <2> QED BY <2>1, <2>2
  <1>2. synced' \in BOOLEAN BY DEF TypeOK, ScanFinish
  <1> QED BY <1>1, <1>2 DEF TypeOK, ScanFinish

LEMMA StartStateType ==
  /\ Idle \in [Thread -> {"idle"}]
  /\ NoPools \in [Thread -> Pool] /\ NoProbes \in [Thread -> SUBSET IP]
  BY EmptyIsPool DEF Idle, NoPools, NoProbes

LEMMA IdleType == ASSUME pc' = Idle PROVE PCTypeOK'
  BY Threads DEF Idle, PCTypeOK, ScanPC, MaintainPC, HandlerPC

LEMMA StartupIsBoolean == ("startup" \in Reasons) \in BOOLEAN
  OBVIOUS

LEMMA RestartType == ASSUME TypeOK, Restart PROVE TypeOK'
  <1>1. PCTypeOK' BY IdleType DEF Restart
  <1>2. /\ pool' \in Pool /\ eligible' \in Pool /\ proxyPool' \in Pool
        /\ healthy' \in SUBSET IP /\ recovery' \in SUBSET IP /\ cooling' \in SUBSET IP
    BY EmptyIsPool DEF Restart
  <1>3. /\ failures' \in [IP -> 0..HealthFailures]
        /\ recoveryOK' \in [IP -> 0..RecoverySuccesses]
        /\ syncedIPs' \in [IP -> Nat]
    BY CountsType DEF Restart
  <1>4. /\ paused' \in BOOLEAN /\ booting' \in BOOLEAN /\ inProgress' \in BOOLEAN
        /\ synced' \in BOOLEAN
    <2>1. booting' = ("startup" \in Reasons) BY Zenon DEF Restart
    <2>2. ("startup" \in Reasons) \in BOOLEAN BY StartupIsBoolean, Zenon
    <2>3. booting' \in BOOLEAN BY <2>1, <2>2, Zenon
    <2> QED BY <2>3 DEF Restart
  <1>5. out' \in [Thread -> Pool] /\ todo' \in [Thread -> SUBSET IP]
    BY StartStateType DEF Restart
  <1>6. scan' \in ScanLocals /\ round' \in RoundLocals
    BY NoScanType, NoRoundType DEF Restart
  <1>7. UNCHANGED <<cfg, observed, cooled>> BY DEF Restart
  <1> QED BY <1>1, <1>2, <1>3, <1>4, <1>5, <1>6, <1>7 DEF TypeOK

-----------------------------------------------------------------------------
(* The rounds of maintain. *)

LEMMA MonitorTickType == ASSUME TypeOK, MonitorTick PROVE TypeOK'
  <1>1. PCTypeOK' BY GotoMaintain DEF TypeOK, MonitorTick, MaintainPC
  <1>2. todo' \in [Thread -> SUBSET IP] BY InType DEF TypeOK, MonitorTick
  <1> QED BY <1>1, <1>2 DEF TypeOK, MonitorTick

LEMMA CountedType ==
  ASSUME NEW limit \in Nat \ {0}, NEW n \in 0..limit
  PROVE  Counted(n, limit) \in 0..limit
  BY DEF Counted

LEMMA ProbeFailsType ==
  ASSUME TypeOK, NEW i \in IP, ProbeFails(i) PROVE TypeOK'
  <1>1. todo' \in [Thread -> SUBSET IP] BY DEF TypeOK, ProbeFails, Probing
  <1>2. healthy' \in SUBSET IP BY DEF TypeOK, ProbeFails
  <1>3. failures' \in [IP -> 0..HealthFailures]
    <2>1. failures[i] \in 0..HealthFailures BY DEF TypeOK
    <2>2. Counted(failures[i], HealthFailures) \in 0..HealthFailures
      BY <2>1, LimitFacts, CountedType
    <2> QED BY <2>2 DEF TypeOK, ProbeFails
  <1>4. round' \in RoundLocals BY DEF TypeOK, ProbeFails, RoundLocals
  <1> QED BY <1>1, <1>2, <1>3, <1>4 DEF TypeOK, PCTypeOK, ProbeFails, Probing

\* Writing down what a probe measured keeps the locals of the round.
LEMMA CheckedType ==
  ASSUME TypeOK, NEW i \in IP, NEW level \in Level
  PROVE  [round EXCEPT !.checked[i] = level] \in RoundLocals
  <1>1. round \in RoundLocals /\ round.checked \in Pool
    BY DEF TypeOK, RoundLocals
  <1>2. [round.checked EXCEPT ![i] = level] \in Pool BY <1>1 DEF Pool
  <1> QED BY <1>1, <1>2 DEF RoundLocals

LEMMA ProbeSucceedsType ==
  ASSUME TypeOK, NEW i \in IP, NEW level \in Measured, ProbeSucceeds(i, level)
  PROVE  TypeOK'
  <1>1. todo' \in [Thread -> SUBSET IP] BY DEF TypeOK, ProbeSucceeds, Probing
  <1>2. healthy' \in SUBSET IP BY DEF TypeOK, ProbeSucceeds
  <1>3. failures' \in [IP -> 0..HealthFailures]
    BY LimitFacts DEF TypeOK, ProbeSucceeds
  <1>4. round' \in RoundLocals BY CheckedType, LevelFacts DEF ProbeSucceeds
  <1> QED BY <1>1, <1>2, <1>3, <1>4 DEF TypeOK, PCTypeOK, ProbeSucceeds, Probing

LEMMA ObservePinnedType ==
  ASSUME TypeOK, NEW expired, NEW cooler, ObservePinned(expired, cooler)
  PROVE  /\ observed' \in [IP -> Nat] /\ cooled' \in [IP -> Nat]
         /\ cfg' \in [ip_blacklist: SUBSET IP, exempt_list: SUBSET IP]
  <1>1. \A i \in IP : observed[i] \in Nat /\ cooled[i] \in Nat BY DEF TypeOK
  <1>2. \A i \in IP : /\ Observations(expired, i) \in Nat
                      /\ Coolings(expired, cooler, i) \in Nat
    BY <1>1 DEF Observations, Coolings
  <1>3. observed' \in [IP -> Nat] BY <1>1, <1>2 DEF ObservePinned
  <1>4. cooled' \in [IP -> Nat] BY <1>1, <1>2 DEF ObservePinned
  <1>5. cfg' \in [ip_blacklist: SUBSET IP, exempt_list: SUBSET IP]
    BY DEF TypeOK, ObservePinned
  <1> QED BY <1>3, <1>4, <1>5

LEMMA ProbedType == ASSUME TypeOK PROVE Probed \in Pool
  <1>1. pool \in Pool /\ round.checked \in Pool BY DEF TypeOK, RoundLocals
  <1>2. \A i \in IP : pool[i] \in Level /\ round.checked[i] \in Level BY <1>1 DEF Pool
  <1> QED BY <1>2, LevelFacts DEF Pool, Probed

LEMMA SyncDecisionType ==
  ASSUME NEW p, NEW removed, NEW due \in BOOLEAN
  PROVE  SyncAfterChange(p, removed, due) \in BOOLEAN
  BY DEF SyncAfterChange

LEMMA PruneType ==
  ASSUME TypeOK, NEW expired, NEW due \in BOOLEAN, Prune(expired, due)
  PROVE  TypeOK'
  <1> DEFINE gone == round.removed \cap In(pool)
             evicted == Evicted(expired, recovery \cup gone)
             new == Without(Probed, evicted)
             dns == SyncAfterChange(new, round.removed, due)
             urgent == Listed(syncedIPs) \cap round.removed # {}
  <1>1. /\ ObservePinned(expired, recovery \cup gone)
        /\ pool' = new
        /\ healthy' = Merge(pool, healthy, new)
        /\ failures' = [i \in IP |-> IF i \in gone THEN 0 ELSE failures[i]]
        /\ recovery' = (recovery \cup gone) \ evicted
        /\ cooling' = (cooling \cup (gone \ recovery)) \ evicted
        /\ recoveryOK' = [i \in IP |-> IF i \in gone \cup evicted THEN 0
                                       ELSE recoveryOK[i]]
        /\ eligible' = Without(eligible, gone \cup evicted)
        /\ round' = [NoRound EXCEPT !.count = Size(new), !.dns = dns, !.urgent = urgent]
        /\ \/ Hold("maintain", new) /\ Goto("maintain", "pruned")
           \/ UNCHANGED out /\ Goto("maintain", "recover")
        /\ todo' = [todo EXCEPT !["maintain"] = {}]
        /\ UNCHANGED <<paused, booting, inProgress, dnsVars, proxyPool, scan>>
    BY DEF Prune
  <1>2. new \in Pool /\ gone \in SUBSET IP
    BY ProbedType, PoolShapes, InType
  <1>3. dns \in BOOLEAN /\ urgent \in BOOLEAN /\ Size(new) \in 0..Cardinality(IP)
    BY SyncDecisionType, SizeType
  <1> HIDE DEF gone, evicted, new, dns, urgent
  <1>4. PCTypeOK' BY <1>1, GotoMaintain DEF TypeOK, MaintainPC
  <1>5. out' \in [Thread -> Pool] BY <1>1, <1>2, HoldType, Threads DEF TypeOK
  <1>6. round' \in RoundLocals BY <1>1, <1>3, NoRoundType DEF RoundLocals
  <1>7. /\ observed' \in [IP -> Nat] /\ cooled' \in [IP -> Nat]
        /\ cfg' \in [ip_blacklist: SUBSET IP, exempt_list: SUBSET IP]
    BY <1>1, ObservePinnedType
  <1>8. /\ failures' \in [IP -> 0..HealthFailures]
        /\ recoveryOK' \in [IP -> 0..RecoverySuccesses]
    BY <1>1, LimitFacts DEF TypeOK
  <1>9. /\ recovery' \in SUBSET IP /\ cooling' \in SUBSET IP
        /\ healthy' \in SUBSET IP /\ eligible' \in Pool
    BY <1>1, <1>2, MergeType, PoolShapes DEF TypeOK
  <1>10. todo' \in [Thread -> SUBSET IP] BY <1>1 DEF TypeOK
  <1> QED BY <1>1, <1>2, <1>4, <1>5, <1>6, <1>7, <1>8, <1>9, <1>10 DEF TypeOK

LEMMA RecoverBeginsType == ASSUME TypeOK, RecoverBegins PROVE TypeOK'
  <1>1. PCTypeOK' BY GotoMaintain DEF TypeOK, RecoverBegins, MaintainPC
  <1>2. todo' \in [Thread -> SUBSET IP] BY DEF TypeOK, RecoverBegins, Recoverable
  <1>3. round' \in RoundLocals BY DEF TypeOK, RecoverBegins, RoundLocals
  <1> QED BY <1>1, <1>2, <1>3 DEF TypeOK, RecoverBegins

LEMMA ReprobeFailsType ==
  ASSUME TypeOK, NEW i \in IP, ReprobeFails(i) PROVE TypeOK'
  <1>1. todo' \in [Thread -> SUBSET IP] BY DEF TypeOK, ReprobeFails, Reprobing
  <1>2. recoveryOK' \in [IP -> 0..RecoverySuccesses]
    BY LimitFacts DEF TypeOK, ReprobeFails
  <1> QED BY <1>1, <1>2 DEF TypeOK, PCTypeOK, ReprobeFails, Reprobing

LEMMA ReprobeSucceedsType ==
  ASSUME TypeOK, NEW i \in IP, NEW level \in Measured, ReprobeSucceeds(i, level)
  PROVE  TypeOK'
  <1> DEFINE successes == Counted(round.okBefore[i], RecoverySuccesses)
             now == IF successes = RecoverySuccesses THEN level ELSE round.checked[i]
  <1>1. todo' \in [Thread -> SUBSET IP] BY DEF TypeOK, ReprobeSucceeds, Reprobing
  <1>2. round.okBefore[i] \in 0..RecoverySuccesses /\ round.checked[i] \in Level
    BY DEF TypeOK, RoundLocals, Pool
  <1>3. successes \in 0..RecoverySuccesses BY <1>2, LimitFacts, CountedType
  <1>4. now \in Level BY <1>2, LevelFacts
  <1>5. /\ recoveryOK' = [recoveryOK EXCEPT ![i] = successes]
        /\ round' = [round EXCEPT !.checked[i] = now]
    BY DEF ReprobeSucceeds
  <1> HIDE DEF successes, now
  <1>6. recoveryOK' \in [IP -> 0..RecoverySuccesses] BY <1>3, <1>5 DEF TypeOK
  <1>7. round' \in RoundLocals BY <1>4, <1>5, CheckedType
  <1> QED BY <1>1, <1>6, <1>7 DEF TypeOK, PCTypeOK, ReprobeSucceeds, Reprobing

LEMMA NoneRecoveredType ==
  ASSUME TypeOK, NEW expired, NoneRecovered(expired) PROVE TypeOK'
  <1> DEFINE evicted == Evicted(expired, recovery)
  <1>1. /\ ObservePinned(expired, recovery)
        /\ recovery' = recovery \ evicted /\ cooling' = cooling \ evicted
        /\ recoveryOK' = [i \in IP |-> IF i \in evicted THEN 0 ELSE recoveryOK[i]]
        /\ eligible' = Without(eligible, evicted)
    BY DEF NoneRecovered
  <1> HIDE DEF evicted
  <1>2. PCTypeOK' BY GotoMaintain DEF TypeOK, NoneRecovered, MaintainPC
  <1>3. todo' \in [Thread -> SUBSET IP] BY DEF TypeOK, NoneRecovered
  <1>4. /\ observed' \in [IP -> Nat] /\ cooled' \in [IP -> Nat]
        /\ cfg' \in [ip_blacklist: SUBSET IP, exempt_list: SUBSET IP]
    BY <1>1, ObservePinnedType
  <1>5. recoveryOK' \in [IP -> 0..RecoverySuccesses]
    BY <1>1, LimitFacts DEF TypeOK
  <1>6. eligible' \in Pool BY <1>1, PoolShapes DEF TypeOK
  <1> QED BY <1>1, <1>2, <1>3, <1>4, <1>5, <1>6 DEF TypeOK, NoneRecovered

-----------------------------------------------------------------------------
(* The admission of recovered addresses. *)

LEMMA AdmitBeginsType == ASSUME TypeOK, AdmitBegins PROVE TypeOK'
  <1>1. PCTypeOK' BY GotoMaintain DEF TypeOK, AdmitBegins, MaintainPC
  <1>2. todo' \in [Thread -> SUBSET IP] BY DEF TypeOK, AdmitBegins
  <1>3. round' \in RoundLocals BY DEF TypeOK, AdmitBegins, RoundLocals
  <1> QED BY <1>1, <1>2, <1>3 DEF TypeOK, AdmitBegins

\* The fastest recovered address, and the slowest of a pool without space.
LEMMA Candidate ==
  ASSUME TypeOK, In(round.checked) # {}
  PROVE  Best(round.checked) \in IP /\ round.checked[Best(round.checked)] \in Level
  <1>1. round.checked \in Pool BY DEF TypeOK, RoundLocals
  <1>2. Best(round.checked) \in IP BY <1>1, BestIsFirst, InType
  <1> QED BY <1>1, <1>2 DEF Pool

LEMMA WorstDynamic ==
  ASSUME TypeOK, Size(Dynamic(pool)) >= PoolSize
  PROVE  Worst(Dynamic(pool)) \in In(Dynamic(pool))
  <1>1. Dynamic(pool) \in Pool BY ComposedPool
  <1>2. In(Dynamic(pool)) # {}
    <2> SUFFICES ASSUME In(Dynamic(pool)) = {} PROVE FALSE OBVIOUS
    <2>1. Size(Dynamic(pool)) = 0 BY FS_EmptySet DEF Size
    <2> QED BY <2>1, LimitFacts
  <1> QED BY <1>1, <1>2, WorstIsLast

\* Taking the candidate off the list of the recovered ones.
LEMMA AdmittedRound ==
  ASSUME TypeOK, NEW c \in IP,
         \/ round' = [round EXCEPT !.checked[c] = Absent, !.changed = TRUE]
         \/ round' = [round EXCEPT !.checked[c] = Absent]
  PROVE  round' \in RoundLocals
  <1> DEFINE r == [round EXCEPT !.checked[c] = Absent]
  <1>1. r \in RoundLocals BY CheckedType, LevelFacts
  <1>2. round' = r \/ round' = [r EXCEPT !.changed = TRUE]
    BY DEF TypeOK, RoundLocals
  <1> HIDE DEF r
  <1> QED BY <1>1, <1>2 DEF RoundLocals

LEMMA AdmitType == ASSUME TypeOK, Admit PROVE TypeOK'
  <1> DEFINE c == Best(round.checked)
             level == round.checked[c]
  <1>1. /\ \/ AdmitDirectly(c, level) \/ AdmitIntoSpace(c, level)
           \/ AdmitForWorst(c, level) \/ AdmitRefused(c, level)
        /\ UNCHANGED <<cfg, paused, booting, healthy, failures, observed, cooled,
                       inProgress, dnsVars, proxyPool, pc, out, todo, scan>>
    BY DEF Admit
  <1>2. c \in IP /\ level \in Level BY Candidate DEF Admit
  <1> HIDE DEF c, level
  <1>3. /\ pool \in Pool /\ eligible \in Pool
        /\ recoveryOK \in [IP -> 0..RecoverySuccesses]
        /\ recovery \in SUBSET IP /\ cooling \in SUBSET IP
        /\ Dynamic(pool) \in Pool
    BY ComposedPool DEF TypeOK
  <1>4. round' \in RoundLocals
    BY <1>1, <1>2, AdmittedRound DEF AdmitDirectly, AdmitIntoSpace, AdmitForWorst,
                                     AdmitRefused
  <1>5. CASE AdmitDirectly(c, level)
    <2>1. pool' \in Pool BY <1>2, <1>3, <1>5, PoolShapes DEF AdmitDirectly
    <2>2. recoveryOK' \in [IP -> 0..RecoverySuccesses]
      BY <1>2, <1>3, <1>5, LimitFacts DEF AdmitDirectly
    <2> QED BY <1>1, <1>4, <1>5, <2>1, <2>2 DEF TypeOK, PCTypeOK, AdmitDirectly
  <1>6. CASE AdmitIntoSpace(c, level)
    <2>1. With(Dynamic(pool), c, level) \in Pool BY <1>2, <1>3, PoolShapes
    <2>2. pool' \in Pool BY <1>3, <1>6, <2>1, ComposeType DEF AdmitIntoSpace
    <2>3. eligible' \in Pool BY <1>6, ComposedPool DEF AdmitIntoSpace
    <2>4. recoveryOK' \in [IP -> 0..RecoverySuccesses]
      BY <1>2, <1>3, <1>6, LimitFacts DEF AdmitIntoSpace
    <2> QED BY <1>1, <1>4, <1>6, <2>2, <2>3, <2>4 DEF TypeOK, PCTypeOK, AdmitIntoSpace
  <1>7. CASE AdmitForWorst(c, level)
    <2> DEFINE worst == Worst(Dynamic(pool))
               rest == Without(Dynamic(pool), {worst})
    <2>1. /\ recovery' = (recovery \ {c}) \cup {worst}
          /\ cooling' = (cooling \ {c}) \cup ({worst} \ recovery)
          /\ recoveryOK' = [recoveryOK EXCEPT ![c] = 0, ![worst] = 0]
          /\ pool' = Compose(pool, recovery', With(rest, c, level))
          /\ eligible' = EligibleAfter(pool, With(eligible, worst, Absent))
      BY <1>7 DEF AdmitForWorst
    <2>2. worst \in IP BY <1>7, WorstDynamic, InType DEF AdmitForWorst
    <2>3. rest \in Pool BY <1>3, PoolShapes
    <2> HIDE DEF worst, rest
    <2>4. With(rest, c, level) \in Pool BY <1>2, <2>3, PoolShapes
    <2>5. pool' \in Pool BY <1>3, <2>1, <2>4, ComposeType
    <2>6. eligible' \in Pool
      <3>1. With(eligible, worst, Absent) \in Pool BY <1>3, <2>2, LevelFacts, PoolShapes
      <3> QED BY <1>3, <2>1, <3>1, EligibleAfterType
    <2>7. recoveryOK' \in [IP -> 0..RecoverySuccesses]
      BY <1>2, <1>3, <2>1, <2>2, LimitFacts
    <2>8. recovery' \in SUBSET IP /\ cooling' \in SUBSET IP BY <1>3, <2>1, <2>2
    <2> QED BY <1>1, <1>4, <2>5, <2>6, <2>7, <2>8 DEF TypeOK, PCTypeOK
  <1>8. CASE AdmitRefused(c, level)
    BY <1>1, <1>4, <1>8 DEF TypeOK, PCTypeOK, AdmitRefused
  <1> QED BY <1>1, <1>5, <1>6, <1>7, <1>8

LEMMA AdmitEndsType ==
  ASSUME TypeOK, NEW due \in BOOLEAN, AdmitEnds(due) PROVE TypeOK'
  <1> DEFINE new == Compose(pool, recovery, Dynamic(pool))
             dns == round.dns \/ (/\ DesiredDNS(round.before) # DesiredDNS(new)
                                  /\ SyncAfterChange(new, {}, due))
  <1>1. new \in Pool /\ EligibleAfter(pool, eligible) \in Pool BY ComposedPool
  <1>2. dns \in BOOLEAN
    <2>1. round.dns \in BOOLEAN BY DEF TypeOK, RoundLocals
    <2> QED BY <2>1, SyncDecisionType
  <1>3. CASE round.changed
    <2>1. /\ pool' = new
          /\ healthy' = Merge(round.before, healthy, new)
          /\ eligible' = EligibleAfter(pool, eligible)
          /\ Hold("maintain", new)
          /\ Goto("maintain", "admitted")
          /\ round' = [NoRound EXCEPT !.count = round.count, !.urgent = round.urgent,
                                      !.dns = dns]
      BY <1>3 DEF AdmitEnds
    <2> HIDE DEF new, dns
    <2>2. round' \in RoundLocals
      BY <1>2, <2>1, NoRoundType DEF TypeOK, RoundLocals
    <2>3. PCTypeOK' BY <2>1, GotoMaintain DEF TypeOK, MaintainPC
    <2>4. out' \in [Thread -> Pool] BY <1>1, <2>1, HoldType, Threads
    <2>5. healthy' \in SUBSET IP BY <2>1, MergeType
    <2> QED BY <1>1, <2>1, <2>2, <2>3, <2>4, <2>5 DEF TypeOK, AdmitEnds
  <1>4. CASE ~round.changed
    <2>1. /\ Goto("maintain", "decide")
          /\ round' = [round EXCEPT !.before = EmptyPool]
          /\ UNCHANGED <<pool, healthy, eligible, out>>
      BY <1>4 DEF AdmitEnds
    <2>2. PCTypeOK' BY <2>1, GotoMaintain DEF TypeOK, MaintainPC
    <2>3. round' \in RoundLocals BY <2>1, EmptyIsPool DEF TypeOK, RoundLocals
    <2> QED BY <2>1, <2>2, <2>3 DEF TypeOK, AdmitEnds
  <1> QED BY <1>3, <1>4

LEMMA DecideType == ASSUME TypeOK, Decide PROVE TypeOK'
  <1>1. PCTypeOK' BY GotoMaintain DEF TypeOK, Decide, MaintainPC
  <1>2. round' \in RoundLocals
    BY NoRoundType DEF TypeOK, Decide, RoundLocals
  <1> QED BY <1>1, <1>2 DEF TypeOK, Decide

LEMMA JudgeType == ASSUME TypeOK, Judge PROVE TypeOK'
  <1>1. round' \in RoundLocals BY NoRoundType DEF Judge
  <1>2. CASE ScanBegins("health") /\ UNCHANGED booting
    BY <1>1, <1>2, ScanBeginsType DEF TypeOK
  <1>3. CASE ~(ScanBegins("health") /\ UNCHANGED booting)
    <2>1. /\ Goto("maintain", "idle")
          /\ UNCHANGED <<cfg, paused, booting, poolVars, recoveryVars, pinVars,
                         inProgress, dnsVars, proxyPool, out, todo, scan>>
      BY <1>3 DEF Judge
    <2>2. PCTypeOK' BY <2>1, GotoMaintain DEF TypeOK, MaintainPC
    <2> QED BY <1>1, <2>1, <2>2 DEF TypeOK
  <1> QED BY <1>2, <1>3

-----------------------------------------------------------------------------
(* Time, the user, and everything together. *)

LEMMA EnvironmentType == ASSUME TypeOK, Environment PROVE TypeOK'
  <1>1. CASE WebScan BY <1>1, BeginningsType
  <1>2. CASE ToggleScanPause
    BY <1>2 DEF TypeOK, PCTypeOK, ToggleScanPause
  <1>3. ASSUME NEW i \in IP, CooldownElapses(i) PROVE TypeOK'
    BY <1>3 DEF TypeOK, PCTypeOK, CooldownElapses
  <1>4. ASSUME NEW h \in Handler, NEW lists \in Lists, SaveLists(h, lists)
        PROVE  TypeOK'
    <2>1. PCTypeOK' BY <1>4, GotoHandler DEF TypeOK, SaveLists, HandlerPC
    <2>2. cfg' \in [ip_blacklist: SUBSET IP, exempt_list: SUBSET IP]
      BY <1>4, ListsAssumption DEF SaveLists
    <2> QED BY <1>4, <2>1, <2>2 DEF TypeOK, SaveLists
  <1> QED BY <1>1, <1>2, <1>3, <1>4 DEF Environment

LEMMA ApplyBlacklistType ==
  ASSUME TypeOK, NEW h \in Handler, NEW due, ApplyBlacklist(h, due) PROVE TypeOK'
  <1> DEFINE black == cfg.ip_blacklist
             removed == (In(pool) \cup recovery) \cap black
             new == Without(pool, black)
             next == IF removed = {} THEN "idle"
                     ELSE IF SyncAfterChange(new, removed, due) THEN "filteredDNS"
                     ELSE "filtered"
  <1>1. /\ pool' = new
        /\ healthy' = (IF removed = {} THEN healthy ELSE Merge(pool, healthy, new))
        /\ failures' = [i \in IP |-> IF i \in In(pool) \cap black THEN 0 ELSE failures[i]]
        /\ recovery' = recovery \ black
        /\ cooling' = cooling \ black
        /\ recoveryOK' = [i \in IP |-> IF i \in recovery \cap black THEN 0
                                       ELSE recoveryOK[i]]
        /\ Hold(h, IF removed = {} THEN EmptyPool ELSE new)
        /\ Goto(h, next)
    BY DEF ApplyBlacklist
  <1>2. new \in Pool BY PoolShapes DEF TypeOK
  <1>3. next \in HandlerPC BY DEF HandlerPC
  <1> HIDE DEF black, removed, new, next
  <1>4. PCTypeOK' BY <1>1, <1>3, GotoHandler DEF TypeOK
  <1>5. out' \in [Thread -> Pool]
    <2>1. (IF removed = {} THEN EmptyPool ELSE new) \in Pool BY <1>2, EmptyIsPool
    <2> QED BY <1>1, <2>1, HoldType, Threads
  <1>6. healthy' \in SUBSET IP BY <1>1, MergeType DEF TypeOK
  <1>7. /\ failures' \in [IP -> 0..HealthFailures]
        /\ recoveryOK' \in [IP -> 0..RecoverySuccesses]
    BY <1>1, LimitFacts DEF TypeOK
  <1> QED BY <1>1, <1>2, <1>4, <1>5, <1>6, <1>7 DEF TypeOK, ApplyBlacklist

LEMMA ScanStepType == ASSUME TypeOK, ScanStep PROVE TypeOK'
  <1>1. CASE ScanPublishes \/ SyncStep("scan")
    BY <1>1, ScanPublishesType, SyncBeginsType, SyncReturnsType, Threads DEF SyncStep
  <1>2. CASE RefreshStep("scan")
    BY <1>2, EligibilityType, MergePinnedType, PinProbeType DEF RefreshStep
  <1>3. CASE \E batch \in Batches : ProgressFilter(batch) BY <1>3, ProgressFilterType
  <1> QED BY <1>1, <1>2, <1>3, ScanBaseType, ScanFailsType, ProgressSelectType,
             ProgressInstallType, FinalFilterType, FinalSelectType, FinalInstallType,
             ScanFinishType
          DEF ScanStep

LEMMA DueType == Due \subseteq BOOLEAN
  BY SwitchesAssumption DEF Due

LEMMA RoundStepType == ASSUME TypeOK, RoundStep PROVE TypeOK'
  <1>1. CASE RoundPublishes \/ SyncStep("maintain")
    BY <1>1, RoundPublishesType, SyncBeginsType, SyncReturnsType, Threads DEF SyncStep
  <1>2. CASE \E i \in IP : ProbeFails(i) \/ ReprobeFails(i)
    BY <1>2, ProbeFailsType, ReprobeFailsType
  <1>3. CASE \E i \in IP, level \in Measured :
               ProbeSucceeds(i, level) \/ ReprobeSucceeds(i, level)
    BY <1>3, ProbeSucceedsType, ReprobeSucceedsType
  <1>4. CASE \E expired \in Expirable : NoneRecovered(expired) \/ \E due \in Due : Prune(expired, due)
    BY <1>4, NoneRecoveredType, PruneType, DueType
  <1>5. CASE \E due \in Due : AdmitEnds(due) BY <1>5, AdmitEndsType, DueType
  <1> QED BY <1>1, <1>2, <1>3, <1>4, <1>5, RecoverBeginsType, AdmitBeginsType, AdmitType,
             DecideType, JudgeType
          DEF RoundStep

LEMMA HandlerStepType ==
  ASSUME TypeOK, NEW h \in Handler, HandlerStep(h) PROVE TypeOK'
  <1>1. CASE HandlerPublishes(h) \/ SyncStep(h)
    BY <1>1, HandlerPublishesType, SyncBeginsType, SyncReturnsType, Threads DEF SyncStep
  <1>2. CASE RefreshStep(h)
    BY <1>2, EligibilityType, MergePinnedType, PinProbeType DEF RefreshStep
  <1>3. CASE \E due \in Due : ApplyBlacklist(h, due) BY <1>3, ApplyBlacklistType
  <1> QED BY <1>1, <1>2, <1>3 DEF HandlerStep

LEMMA NextType == ASSUME TypeOK, Next PROVE TypeOK'
  <1>1. CASE Tick
    BY <1>1, BeginningsType, MonitorTickType DEF Tick
  <1>2. CASE \E h \in Handler : HandlerStep(h) BY <1>2, HandlerStepType
  <1> QED BY <1>1, <1>2, BeginningsType, StartupRefusedType, RestartType, ScanStepType,
             RoundStepType, EnvironmentType
          DEF Next

LEMMA InitType == Init => TypeOK
  <1> SUFFICES ASSUME Init PROVE TypeOK OBVIOUS
  <1>1. PCTypeOK BY Threads DEF Init, Idle, PCTypeOK, ScanPC, MaintainPC, HandlerPC
  <1>2. /\ paused \in BOOLEAN /\ inProgress \in BOOLEAN /\ synced \in BOOLEAN BY DEF Init
  <1>3. booting \in BOOLEAN
    <2>1. booting = ("startup" \in Reasons) BY Zenon DEF Init
    <2> QED BY <2>1, StartupIsBoolean, Zenon
  <1>4. cfg \in [ip_blacklist: SUBSET IP, exempt_list: SUBSET IP]
    BY ListsAssumption DEF Init
  <1>5. /\ failures \in [IP -> 0..HealthFailures]
        /\ recoveryOK \in [IP -> 0..RecoverySuccesses]
        /\ observed \in [IP -> Nat] /\ cooled \in [IP -> Nat] /\ syncedIPs \in [IP -> Nat]
    BY CountsType DEF Init
  <1>6. /\ pool \in Pool /\ eligible \in Pool /\ proxyPool \in Pool
        /\ healthy \in SUBSET IP /\ recovery \in SUBSET IP /\ cooling \in SUBSET IP
    BY EmptyIsPool DEF Init
  <1>7. /\ out \in [Thread -> Pool] /\ todo \in [Thread -> SUBSET IP]
        /\ scan \in ScanLocals /\ round \in RoundLocals
    BY StartStateType, NoScanType, NoRoundType DEF Init
  <1> QED BY <1>1, <1>2, <1>3, <1>4, <1>5, <1>6, <1>7 DEF TypeOK

\* Type correctness of the whole forward pool, with any number of handlers.
THEOREM TypeCorrect == Spec => []TypeOK
  <1>1. ASSUME TypeOK, [Next]_vars PROVE TypeOK'
    <2>1. CASE UNCHANGED vars BY <1>1, <2>1 DEF vars, TypeOK, PCTypeOK
    <2>2. CASE Next BY <1>1, <2>2, NextType
    <2> QED BY <1>1, <2>1, <2>2
  <1> QED BY <1>1, InitType, PTL DEF Spec

=============================================================================
