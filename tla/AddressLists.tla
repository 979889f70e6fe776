---------------------------- MODULE AddressLists ----------------------------
(***************************************************************************)
(* The three address lists of cfnat and everyone who changes them:         *)
(* ip_blacklist, post_pool_speed_test.force_test_list and exempt_list, in  *)
(* the configuration in use (App.cfg, under App.mu) and in the file        *)
(* (internal/config, no lock).  The speed test of the pool, the speed test *)
(* of the blacklist and the eviction of pinned addresses change the first  *)
(* and then write it out; a Web form, or a user who edits the whole file,  *)
(* writes the file and reloads it.                                         *)
(*                                                                         *)
(* Every other write is a Set: read the whole file, replace one list, let  *)
(* it win over the other two, truncate the file and write it.  Each of     *)
(* these steps is an action, so writers can meet at any of them.           *)
(*                                                                         *)
(* An entry of a list is a set of addresses: one address, or a CIDR.       *)
(***************************************************************************)
EXTENDS Naturals, Sequences

CONSTANTS
    IP,             \* addresses
    Nets,           \* CIDR entries a user may write: sets of several addresses
    Tester,         \* goroutines that run tests: the maintain loop, a Web scan
    Web,            \* goroutines of Web requests
    AutoBlacklist,  \* post_pool_speed_test.auto_blacklist
    Overlap,        \* whether operations may overlap in time
    Failing,        \* goroutines whose writes may fail
    MaxFaults       \* bound of the model: failed writes

ASSUME NetsAssumption == \A n \in Nets : n \subseteq IP /\ \A i \in IP : n # {i}
ASSUME GoroutineAssumption == Tester \cap Web = {} /\ Failing \subseteq Tester \cup Web
ASSUME FaultsAssumption == MaxFaults \in Nat
ASSUME SwitchAssumption == AutoBlacklist \in BOOLEAN /\ Overlap \in BOOLEAN

Single == {{i} : i \in IP}
Entry == Single \cup Nets
Key == {"black", "force", "exempt"}
Lists == [Key -> SUBSET Entry]
Goroutine == Tester \cup Web

VARIABLES
    disk,     \* the lists of the configuration file
    torn,     \* whether the file is truncated: no Load can read it
    cfg,      \* the lists in use
    pool,     \* the forwarding pool
    task,     \* what each goroutine is doing
    faults,   \* writes that failed so far
    met,      \* history: who is or was at work at the same time as another
    agreed    \* history: file and lists in use were brought into step, and
              \* since then nobody met and no write failed

vars == <<disk, torn, cfg, pool, task, faults, met, agreed>>

(***************************************************************************)
(* internal/config.                                                        *)
(***************************************************************************)

\* entryCoveredBy: an address in an entry, a CIDR in a wider one.
Covered(e, higher) == \E h \in higher : e \subseteq h
Uncovered(list, higher) == {e \in list : ~Covered(e, higher)}

\* Load: the blacklist wins over the force-test list, both over the exempt list.
Normalized(l) ==
    LET force == Uncovered(l["force"], l["black"])
    IN [l EXCEPT !["force"] = force,
                 !["exempt"] = Uncovered(@, l["black"] \cup force)]

ForWinnerHalf(l, key) ==
    [k \in Key |-> IF k = key \/ k = "force" THEN l[k] ELSE Uncovered(l[k], l[key])]
ForWinnerNever(l, key) == Normalized(l)
\* Set: the list that is written wins over the other two.
ForWinner(l, key) == [k \in Key |-> IF k = key THEN l[k] ELSE Uncovered(l[k], l[key])]
With(l, key, value) == ForWinner([l EXCEPT ![key] = value], key)

\* blacklistedAddr
Matches(i, list) == \E e \in list : i \in e

\* Where an address is in the lists: as Load reads them.
Place(l, i) == CASE Matches(i, l["black"]) -> "black"
                 [] ~Matches(i, l["black"]) /\ Matches(i, l["force"]) -> "force"
                 [] ~Matches(i, l["black"] \cup l["force"]) /\ Matches(i, l["exempt"]) -> "exempt"
                 [] OTHER -> "none"
Places == {"none", "black", "force", "exempt"}

(***************************************************************************)
(* Goroutines.  A task carries the writes it has still to make; "reload"   *)
(* reads the file back into App.cfg.  After a failed Set the code returns  *)
(* ("stop"), skips the reload that follows ("skip") or goes on ("go").     *)
(* `want` remembers where it decided that addresses shall be.              *)
(***************************************************************************)
Job == [key: Key \cup {"reload"}, value: SUBSET Entry, fail: {"stop", "skip", "go"}]
SetJob(key, value, fail) == [key |-> key, value |-> value, fail |-> fail]
ReloadJob == [key |-> "reload", value |-> {}, fail |-> "go"]

Undecided == [i \in IP |-> "any"]
Decided(l, ips) == [i \in IP |-> IF i \in ips THEN Place(l, i) ELSE "any"]
\* The addresses that at most one of the lists matches.
Unambiguous(l) ==
    {i \in IP : \A k, m \in Key : Matches(i, l[k]) /\ Matches(i, l[m]) => k = m}
NoLists == [k \in Key |-> {}]
Idle == [op |-> "idle", jobs |-> <<>>, stage |-> "read", got |-> NoLists,
         old |-> NoLists, oldTorn |-> FALSE,
         ips |-> {}, passed |-> {}, forced |-> {}, want |-> Undecided]

Op == {"idle", "round", "restore", "evict", "save", "clear", "edit", "undo"}
Task == [op: Op, jobs: Seq(Job), stage: {"read", "truncate", "write", "check"}, got: Lists,
         old: Lists, oldTorn: BOOLEAN,
         ips: SUBSET IP, passed: SUBSET IP, forced: SUBSET IP,
         want: [IP -> Places \cup {"any"}]]

StateOK ==
    /\ disk \in Lists
    /\ torn \in BOOLEAN
    /\ cfg \in Lists
    /\ pool \in SUBSET IP
    /\ task \in [Goroutine -> Task]
    /\ faults \in 0..MaxFaults
TypeOK == StateOK /\ met \in SUBSET Goroutine /\ agreed \in BOOLEAN

\* The program starts with what Load returns.
Init ==
    /\ disk \in {l \in Lists : l = Normalized(l)}
    /\ torn = FALSE
    /\ cfg = disk
    /\ pool = {}
    /\ task = [g \in Goroutine |-> Idle]
    /\ faults = 0
    /\ met = {} /\ agreed = TRUE

Busy(g) == task[g].op # "idle"
MayStart(g) == ~Busy(g) /\ (Overlap \/ \A h \in Goroutine : ~Busy(h))
Start(g, t) == MayStart(g) /\ task' = [task EXCEPT ![g] = t]

Job1(g) == Head(task[g].jobs)
HasJob(g, key) == task[g].jobs # <<>> /\ Job1(g).key = key
HasSet(g, stage) == /\ task[g].jobs # <<>> /\ Job1(g).key # "reload"
                    /\ task[g].stage = stage

FailedLeft(t) == [t EXCEPT !.stage = "failed"]
\* What is left to do after the first job, done or failed.
Done(t) == [t EXCEPT !.jobs = Tail(@), !.stage = "read", !.got = NoLists]
Failed(t) ==
    LET left == Tail(t.jobs)
    IN [t EXCEPT !.stage = "read", !.got = NoLists, !.want = Undecided,
                 !.op = IF t.jobs[1].fail = "stop" THEN "idle" ELSE @,
                 !.jobs = CASE t.jobs[1].fail = "stop" -> <<>>
                            [] t.jobs[1].fail = "skip" -> Tail(left)
                            [] OTHER -> left]

(***************************************************************************)
(* config.Set and the reload, step by step.                                *)
(***************************************************************************)

\* Load fails on a truncated file, and Set with it.
SetReads(g) ==
    /\ HasSet(g, "read")
    /\ task' = [task EXCEPT ![g] = IF torn THEN Failed(@)
                                   ELSE [@ EXCEPT !.got = Normalized(disk),
                                                  !.stage = "truncate"]]
    /\ UNCHANGED <<disk, torn, cfg, pool, faults>>

\* Validate, Stat or opening the file: nothing is written.
SetFails(g) ==
    /\ g \in Failing /\ faults < MaxFaults
    /\ HasSet(g, "truncate")
    /\ task' = [task EXCEPT ![g] = Failed(@)]
    /\ faults' = faults + 1
    /\ UNCHANGED <<disk, torn, cfg, pool>>

SetTruncates(g) ==
    /\ HasSet(g, "truncate")
    /\ torn' = TRUE
    /\ task' = [task EXCEPT ![g].stage = "write"]
    /\ UNCHANGED <<disk, cfg, pool, faults>>

SetWrites(g) ==
    /\ HasSet(g, "write")
    /\ disk' = With(task[g].got, Job1(g).key, Job1(g).value)
    /\ torn' = FALSE
    /\ task' = [task EXCEPT ![g] = Done(@)]
    /\ UNCHANGED <<cfg, pool, faults>>

\* Load outside App.mu, and later the assignment under it.
ReloadReads(g) ==
    /\ HasJob(g, "reload") /\ task[g].stage = "read"
    /\ task' = [task EXCEPT ![g] = IF torn THEN Failed(@)
                                   ELSE [@ EXCEPT !.got = Normalized(disk),
                                                  !.stage = "write"]]
    /\ UNCHANGED <<disk, torn, cfg, pool, faults>>

ReloadAssigns(g) ==
    /\ HasJob(g, "reload") /\ task[g].stage = "write"
    /\ cfg' = task[g].got
    /\ task' = [task EXCEPT ![g] = Done(@)]
    /\ UNCHANGED <<disk, torn, pool, faults>>

(***************************************************************************)
(* runPostPoolSpeedTest, at the end of a scan that published pool p.  One  *)
(* scan runs at a time.  Exempt addresses are not tested unless they are   *)
(* on the force-test list as well.                                         *)
(***************************************************************************)
Testing(g) == task[g].op = "round" /\ task[g].jobs = <<>>

StartRound(g, p) ==
    /\ \A h \in Tester : task[h].op # "round"
    /\ \A i \in p : ~Matches(i, cfg["black"])
    /\ LET tested == {i \in p : ~Matches(i, cfg["exempt"]) \/ Matches(i, cfg["force"])}
       IN Start(g, [Idle EXCEPT !.op = "round", !.ips = tested,
                                !.forced = {i \in tested : Matches(i, cfg["force"])}])
    /\ pool' = p
    /\ UNCHANGED <<disk, torn, cfg, faults>>

TestPassesAll(g, i) ==
    /\ Testing(g) /\ i \in task[g].ips
    /\ task' = [task EXCEPT ![g].ips = @ \ {i}, ![g].passed = @ \cup {i}]
    /\ UNCHANGED <<disk, torn, cfg, pool, faults>>
TestPasses(g, i) ==
    /\ Testing(g) /\ i \in task[g].ips
    /\ task' = [task EXCEPT ![g].ips = @ \ {i},
                            ![g].passed = IF i \in task[g].forced THEN @ ELSE @ \cup {i}]
    /\ UNCHANGED <<disk, torn, cfg, pool, faults>>

\* removeSlowPostPoolIP: nothing for an address that has left the pool in the
\* meantime; else out of the pool, to the blacklist, off the force-test list.
\* Only a list that changed is written.
TestFails(g, i) ==
    /\ Testing(g) /\ i \in task[g].ips
    /\ pool' = pool \ {i}
    /\ LET forced == i \in pool /\ i \in task[g].forced
           barred == i \in pool /\ (AutoBlacklist \/ i \in task[g].forced)
           black == IF barred THEN cfg["black"] \cup {{i}} ELSE cfg["black"]
           force == IF forced THEN cfg["force"] \ {{i}} ELSE cfg["force"]
           writes(key, list) == IF list = cfg[key] THEN <<>>
                                ELSE <<SetJob(key, list, "skip"), ReloadJob>>
       IN /\ cfg' = [cfg EXCEPT !["black"] = black, !["force"] = force]
          /\ task' = [task EXCEPT ![g].ips = @ \ {i},
                        ![g].want = Decided(cfg', IF barred THEN {i} ELSE {}),
                        ![g].jobs = writes("black", black) \o writes("force", force)]
    /\ UNCHANGED <<disk, torn, faults>>

\* The context of the scan is done: the addresses left are not tested.
RoundInterrupted(g) ==
    /\ Testing(g) /\ task[g].ips # {}
    /\ task' = [task EXCEPT ![g].ips = {}]
    /\ UNCHANGED <<disk, torn, cfg, pool, faults>>

\* addPostPoolSpeedExemptIPs, once for all the addresses that passed.
RoundEnds(g) ==
    /\ Testing(g) /\ task[g].ips = {}
    /\ LET added == {{i} : i \in {j \in task[g].passed : ~Matches(j, cfg["exempt"])}}
           exempt == cfg["exempt"] \cup added
       IN IF added = {}
          THEN /\ task' = [task EXCEPT ![g] = Idle]
               /\ UNCHANGED cfg
          ELSE /\ cfg' = [cfg EXCEPT !["exempt"] = exempt]
               /\ task' = [task EXCEPT ![g].passed = {},
                             ![g].want = Decided(cfg', UNION added),
                             ![g].jobs = <<SetJob("exempt", exempt, "stop"), ReloadJob>>]
    /\ UNCHANGED <<disk, torn, pool, faults>>

(***************************************************************************)
(* runBlacklistSpeedTest on the single addresses of the blacklist, and     *)
(* unblacklistRestoredIPs for those that were fast enough.                 *)
(***************************************************************************)
StartRestore(g) ==
    /\ LET candidates == {i \in IP : {i} \in cfg["black"]}
       IN candidates # {} /\ Start(g, [Idle EXCEPT !.op = "restore", !.ips = candidates])
    /\ UNCHANGED <<disk, torn, cfg, pool, faults>>

Restores(g, fast) ==
    /\ task[g].op = "restore" /\ task[g].jobs = <<>> /\ task[g].ips # {}
    /\ fast \subseteq task[g].ips
    /\ LET back == {{i} : i \in fast}
           black == cfg["black"] \ back
           exempt == cfg["exempt"] \ back
           force == cfg["force"] \cup {{i} : i \in {j \in fast : ~Matches(j, cfg["force"])}}
       IN IF fast = {}
          THEN task' = [task EXCEPT ![g] = Idle] /\ UNCHANGED cfg
          ELSE /\ cfg' = [k \in Key |-> CASE k = "black" -> black
                                          [] k = "force" -> force
                                          [] k = "exempt" -> exempt]
               /\ task' = [task EXCEPT ![g].ips = {}, ![g].want = Decided(cfg', fast),
                             ![g].jobs = <<SetJob("black", black, "stop"),
                                           SetJob("exempt", exempt, "go"),
                                           SetJob("force", force, "go"), ReloadJob>>]
    /\ UNCHANGED <<disk, torn, pool, faults>>

\* observePinnedCoolingLocked and persistPostPoolExemptList: addresses of the
\* exempt list that cooled for too long.
Evict(g, out) ==
    /\ out # {}
    /\ \A i \in out : /\ {i} \in cfg["exempt"]
                      /\ ~Matches(i, cfg["black"] \cup cfg["force"])
    /\ LET exempt == cfg["exempt"] \ {{i} : i \in out}
       IN /\ cfg' = [cfg EXCEPT !["exempt"] = exempt]
          /\ Start(g, [Idle EXCEPT !.op = "evict", !.want = Decided(cfg', out),
                         !.jobs = <<SetJob("exempt", exempt, "stop"), ReloadJob>>])
    /\ UNCHANGED <<disk, torn, pool, faults>>

\* A round goes on with the next address; the other tests are over.
TesterEnds(g) ==
    /\ task[g].op \in {"restore", "evict"} /\ task[g].jobs = <<>> /\ task[g].ips = {}
    /\ task' = [task EXCEPT ![g] = Idle]
    /\ UNCHANGED <<disk, torn, cfg, pool, faults>>

(***************************************************************************)
(* handleCFNatConfig.  The form carries all three lists, as the page showed *)
(* them at some time and as the user edited them since: any lists.         *)
(***************************************************************************)

\* addedListEntries, removeListEntries: what is new in a list of the form
\* leaves the other two, by text.
Exclusive(form, previous) ==
    LET addedE == form["exempt"] \ previous["exempt"]
        force == form["force"] \ addedE
        addedF == force \ previous["force"]
        black == form["black"] \ (addedE \cup addedF)
        addedB == black \ previous["black"]
    IN [k \in Key |-> CASE k = "black" -> black
                        [] k = "force" -> force \ addedB
                        [] k = "exempt" -> form["exempt"] \ (addedF \cup addedB)]

\* The keys are written in the order of a Go map: any.  The other keys of the
\* form write the lists back as they are.
Orders == {o \in [1..3 -> Key] : \A k \in Key : \E n \in 1..3 : o[n] = k}
Writes(lists, order) ==
    [k \in 1..3 |-> SetJob(order[k], lists[order[k]], "stop")] \o <<ReloadJob>>

StartSave(g, form, order) ==
    LET lists == Exclusive(form, IF torn THEN cfg ELSE Normalized(disk))
    IN /\ Start(g, [Idle EXCEPT !.op = "save", !.jobs = Writes(lists, order),
                                !.want = Decided(lists, Unambiguous(lists))])
       /\ UNCHANGED <<disk, torn, cfg, pool, faults>>

SaveEndsQuietly(g) ==
    /\ task[g].op = "save" /\ task[g].jobs = <<>>
    /\ task' = [task EXCEPT ![g] = Idle]
    /\ UNCHANGED <<disk, torn, cfg, pool, faults>>
\* applyBlacklistNow, and the answer to the user.
SaveEnds(g) ==
    /\ task[g].op = "save" /\ task[g].jobs = <<>>
    /\ pool' = {i \in pool : ~Matches(i, cfg["black"])}
    /\ task' = [task EXCEPT ![g] = Idle]
    /\ UNCHANGED <<disk, torn, cfg, faults>>

\* clearManagedIPLists
StartClear(g) ==
    /\ Start(g, [Idle EXCEPT !.op = "clear", !.want = Decided(NoLists, IP),
                             !.jobs = Writes(NoLists, <<"black", "exempt", "force">>)])
    /\ UNCHANGED <<disk, torn, cfg, pool, faults>>

ClearEnds(g) ==
    /\ task[g].op = "clear" /\ task[g].jobs = <<>>
    /\ task' = [task EXCEPT ![g] = Idle]
    /\ UNCHANGED <<disk, torn, cfg, pool, faults>>

(***************************************************************************)
(* handleCFNatConfigFile: the user edits the whole file.  What passes the   *)
(* checks is written in one go and checked once more by cfnatctl; if that  *)
(* fails, the bytes that were there before are written back.               *)
(***************************************************************************)
Editing(g, stage) ==
    task[g].op \in {"edit", "undo"} /\ task[g].jobs = <<>> /\ task[g].stage = stage

StartEdit(g, form) ==
    /\ Start(g, [Idle EXCEPT !.op = "edit", !.stage = "truncate", !.got = Normalized(form),
                             !.old = disk, !.oldTorn = torn])
    /\ UNCHANGED <<disk, torn, cfg, pool, faults>>

\* Stat or opening the file fails: nothing is written.  (That the old bytes
\* cannot be written back either, which nobody asks, is left out.)
EditFails(g) ==
    /\ Editing(g, "truncate") /\ task[g].op = "edit"
    /\ task' = [task EXCEPT ![g] = Idle]
    /\ UNCHANGED <<disk, torn, cfg, pool, faults>>

EditTruncates(g) ==
    /\ Editing(g, "truncate")
    /\ torn' = TRUE
    /\ task' = [task EXCEPT ![g].stage = "write"]
    /\ UNCHANGED <<disk, cfg, pool, faults>>

EditWrites(g) ==
    /\ Editing(g, "write")
    /\ disk' = task[g].got
    /\ torn' = (task[g].op = "undo" /\ task[g].oldTorn)
    /\ task' = [task EXCEPT ![g].stage = "check"]
    /\ UNCHANGED <<cfg, pool, faults>>

\* Accepted, the file is loaded; the rest is as for a saved form.
EditAccepted(g) ==
    /\ Editing(g, "check") /\ task[g].op = "edit" /\ ~torn
    /\ task' = [task EXCEPT ![g] = [Idle EXCEPT !.op = "save", !.jobs = <<ReloadJob>>,
                                                !.want = Decided(task[g].got, IP)]]
    /\ UNCHANGED <<disk, torn, cfg, pool, faults>>

EditRejectedLeft(g) ==
    /\ Editing(g, "check") /\ task[g].op = "edit"
    /\ task' = [task EXCEPT ![g] = Idle]
    /\ UNCHANGED <<disk, torn, cfg, pool, faults>>
EditRejected(g) ==
    /\ Editing(g, "check") /\ task[g].op = "edit"
    /\ task' = [task EXCEPT ![g].op = "undo", ![g].stage = "truncate",
                            ![g].got = task[g].old]
    /\ UNCHANGED <<disk, torn, cfg, pool, faults>>

EditUndone(g) ==
    /\ Editing(g, "check") /\ task[g].op = "undo"
    /\ task' = [task EXCEPT ![g] = Idle]
    /\ UNCHANGED <<disk, torn, cfg, pool, faults>>

(***************************************************************************)
Edits(g) ==
    \/ \E form \in Lists : StartEdit(g, form)
    \/ EditFails(g) \/ EditTruncates(g) \/ EditWrites(g)
    \/ EditAccepted(g) \/ EditRejected(g) \/ EditUndone(g)

Sets(g) == SetReads(g) \/ SetFails(g) \/ SetTruncates(g) \/ SetWrites(g)
Reloads(g) == ReloadReads(g) \/ ReloadAssigns(g)

Round(g) ==
    \/ \E p \in SUBSET IP : StartRound(g, p)
    \/ \E i \in IP : TestPasses(g, i) \/ TestFails(g, i)
    \/ RoundInterrupted(g)
    \/ RoundEnds(g)

Tests(g) ==
    \/ Round(g)
    \/ StartRestore(g)
    \/ \E fast \in SUBSET IP : Restores(g, fast)
    \/ \E out \in SUBSET IP : Evict(g, out)
    \/ TesterEnds(g)

Requests(g) ==
    \/ \E form \in Lists, order \in Orders : StartSave(g, form, order)
    \/ SaveEnds(g)
    \/ StartClear(g)
    \/ ClearEnds(g)

Step == \/ \E g \in Goroutine : Sets(g) \/ Reloads(g)
        \/ \E g \in Tester : Tests(g)
        \/ \E g \in Web : Requests(g) \/ Edits(g)

\* The history a step leaves.  A reload brings file and lists in use into step,
\* whatever was before, if its goroutine met nobody since its operation began.
Reassigning(g) == HasJob(g, "reload") /\ task[g].stage = "write"
Recorded ==
    /\ met' = {g \in Goroutine : /\ Busy(g)'
                                 /\ g \in met \/ \E h \in Goroutine : h # g /\ Busy(h)'}
    /\ agreed' = (/\ met' = {} /\ faults' = faults
                  /\ agreed \/ \E g \in Goroutine : Reassigning(g) /\ task'[g] # task[g])

Next == Step /\ Recorded

Spec == Init /\ [][Next]_vars

(***************************************************************************)
(* Properties.                                                             *)
(***************************************************************************)

\* No address is an entry of two lists of the file, whoever wrote which list
\* when, with whatever copy in mind (config.Set lets the written list win).
OneListEach(l) ==
    \A s \in Single : \A k, m \in Key : s \in l[k] /\ s \in l[m] => k = m
ExclusiveOnDisk == OneListEach(disk)

\* An operation that reports success did what it decided: the addresses are
\* where it put them, on disk and in use (handleCFNatConfig, runPostPoolSpeedTest).
Ends(g) == task[g].op # "idle" /\ task[g].jobs # <<>> /\ task'[g].jobs = <<>>
DecisionsStick ==
    [][\A g \in Goroutine : Ends(g) =>
          \A i \in IP : LET want == task'[g].want[i] IN
             want # "any" => Place(disk', i) = want /\ Place(cfg', i) = want]_vars

\* When nobody is at work, the lists in use are those that Load finds in the file,
\* unless operations met or a write failed since a lone operation last reloaded
\* them: nothing that was interrupted, refused or taken back is left in one of the
\* two (web.go: a refused file is said to be restored), and what overlapping or a
\* failure left behind is gone with the next form, test or eviction that succeeds.
Quiet == \A g \in Goroutine : ~Busy(g)
Settled == ~torn /\ cfg = Normalized(disk)
AgreedAtRest == Quiet /\ agreed => Settled

\* As long as no write failed, nothing that is blacklisted is forwarded when all is
\* quiet, whoever wrote the blacklist or brought an older one back (README, line 13:
\* a saved blacklist is applied to the pool at once).
Spared(list) == \A i \in pool : ~Matches(i, list)
NothingBarredForwarded == faults = 0 /\ Quiet => Spared(cfg["black"])

\* Only the user and the speed test of the blacklist take an address off the
\* blacklist on disk: no round of tests and no eviction does (README, line 164: an
\* address that is too slow is written to ip_blacklist, and later scans use it no
\* more; line 176: the test of the blacklist lifts it).
BlacklistKept ==
    [][\A i \in IP : Place(disk, i) = "black" /\ Place(disk', i) # "black" =>
          \E g \in Goroutine : /\ HasSet(g, "write") \/ Editing(g, "write")
                              /\ task'[g] # task[g]
                              /\ task[g].op \notin {"round", "evict"}]_vars

\* The lists in use and on disk are one address book: whatever is read, written,
\* truncated and reloaded in between, only verdicts and the user move an address.
Book == INSTANCE AddressBook WITH
    place <- [i \in IP |-> Place(cfg, i)],
    saved <- [i \in IP |-> Place(disk, i)],
    user <- \E g \in Web : Busy(g)
Promised == Book!Spec

(***************************************************************************)
(* The inductive strengthening the proofs need.                            *)
(***************************************************************************)

\* A Set that skips the next job when it fails is never the last one.
SkipsOneJob(t) == \A k \in 1..Len(t.jobs) : t.jobs[k].fail = "skip" => k < Len(t.jobs)

\* What a goroutine may write back as it is.
CopiesExclusive(t) == OneListEach(t.got) /\ OneListEach(t.old)

\* Where a goroutine is at work that met nobody, and file and lists in use were in
\* step when it began and no write of its own failed: a reload is to come, or is
\* behind it.
InStep(g) ==
    LET t == task[g] IN
      IF t.jobs = <<>> THEN Settled
      ELSE torn <=> t.stage = "write" /\ Job1(g).key # "reload"

\* An edit of the file keeps what was there, which is still in use.
Undoable(g) ==
    LET t == task[g] IN
      /\ t.jobs = <<>> /\ t.stage \in {"truncate", "write", "check"}
      /\ ~t.oldTorn /\ cfg = Normalized(t.old)
      /\ torn <=> t.stage = "write"
      /\ t.op = "edit" /\ t.stage = "truncate" => disk = t.old
      /\ t.op = "undo" => t.got = t.old
      /\ t.op = "undo" /\ t.stage = "check" => disk = t.old

Course(g) == IF task[g].op \in {"edit", "undo"} THEN Undoable(g) ELSE InStep(g)

\* Who met nobody reads the file as it is, in step or not.
ReadsTruly(g) == Reassigning(g) => ~torn /\ task[g].got = Normalized(disk)

EndsInReload(jobs) == jobs # <<>> => jobs[Len(jobs)].key = "reload"
Shaped(t) ==
    /\ EndsInReload(t.jobs)
    /\ t.op \in {"idle", "edit", "undo"} => t.jobs = <<>>
    /\ t.jobs = <<>> => t.stage = "read" \/ t.op \in {"edit", "undo"}

LoneInv ==
    /\ \A g \in Goroutine : Shaped(task[g])
    /\ \A g \in Goroutine \ met, h \in Goroutine : Busy(g) /\ Busy(h) => g = h
    /\ agreed => met = {}
    /\ agreed /\ Quiet => Settled
    /\ \A g \in Goroutine \ met : Busy(g) => ReadsTruly(g) /\ (agreed => Course(g))

IInv == /\ StateOK
        /\ ExclusiveOnDisk
        /\ \A g \in Goroutine : SkipsOneJob(task[g]) /\ CopiesExclusive(task[g])
=============================================================================
