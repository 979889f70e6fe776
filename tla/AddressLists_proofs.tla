------------------------- MODULE AddressLists_proofs -------------------------
(***************************************************************************)
(* Proofs about AddressLists for every set of addresses, CIDR entries and  *)
(* goroutines, any of them failing, with operations overlapping or not.    *)
(***************************************************************************)
EXTENDS AddressLists, SequenceTheorems, TLAPS

-----------------------------------------------------------------------------
(* Lists. *)

LEMMA UncoveredType ==
  ASSUME NEW list \in SUBSET Entry, NEW higher
  PROVE  Uncovered(list, higher) \in SUBSET list /\ Uncovered(list, higher) \in SUBSET Entry
  BY DEF Uncovered

\* An entry that stays is not an entry of the list that wins.
LEMMA UncoveredLeaves ==
  ASSUME NEW list, NEW higher, NEW e \in Uncovered(list, higher)
  PROVE  e \in list /\ e \notin higher
  BY DEF Uncovered, Covered

LEMMA NormalizedType == ASSUME NEW l \in Lists PROVE Normalized(l) \in Lists
  <1> DEFINE force == Uncovered(l["force"], l["black"])
             exempt == Uncovered(l["exempt"], l["black"] \cup force)
  <1>1. l["force"] \in SUBSET Entry /\ l["exempt"] \in SUBSET Entry
    BY DEF Lists, Key
  <1>2. force \in SUBSET Entry /\ exempt \in SUBSET Entry
    BY <1>1, UncoveredType
  <1>3. Normalized(l) = [l EXCEPT !["force"] = force, !["exempt"] = exempt]
    BY DEF Normalized, Lists, Key
  <1> QED BY <1>2, <1>3 DEF Lists

\* What Load returns has each address in one list.
LEMMA NormalizedOneListEach == ASSUME NEW l \in Lists PROVE OneListEach(Normalized(l))
  <1> DEFINE force == Uncovered(l["force"], l["black"])
             exempt == Uncovered(l["exempt"], l["black"] \cup force)
             n == Normalized(l)
  <1>1. n["black"] = l["black"] /\ n["force"] = force /\ n["exempt"] = exempt
    BY DEF Normalized, Lists, Key
  <1>2. \A s \in force : s \notin l["black"]
    BY UncoveredLeaves
  <1>3. \A s \in exempt : s \notin l["black"] /\ s \notin force
    BY UncoveredLeaves
  <1> HIDE DEF force, exempt, n
  <1> QED BY <1>1, <1>2, <1>3 DEF OneListEach, Key, n

LEMMA WithType ==
  ASSUME NEW l \in Lists, NEW key \in Key, NEW value \in SUBSET Entry
  PROVE  With(l, key, value) \in Lists
  <1> DEFINE w == [l EXCEPT ![key] = value]
  <1>1. w \in Lists
    BY DEF Lists
  <1>2. \A k \in Key : w[k] \in SUBSET Entry
    BY <1>1 DEF Lists
  <1> HIDE DEF w
  <1>3. \A k \in Key : (IF k = key THEN w[k] ELSE Uncovered(w[k], w[key])) \in SUBSET Entry
    BY <1>2, UncoveredType
  <1>4. With(l, key, value) = [k \in Key |-> IF k = key THEN w[k] ELSE Uncovered(w[k], w[key])]
    BY DEF With, ForWinner, w
  <1> QED BY <1>3, <1>4 DEF Lists

\* Whatever list is written into a configuration, none of its entries is in
\* another list afterwards.
LEMMA WithOneListEach ==
  ASSUME NEW l \in Lists, OneListEach(l), NEW key \in Key, NEW value \in SUBSET Entry
  PROVE  OneListEach(With(l, key, value))
  <1> DEFINE w == With(l, key, value)
  <1>1. w[key] = value
    BY DEF With, ForWinner, Lists
  <1>2. \A k \in Key : k # key => w[k] = Uncovered(l[k], value)
    BY DEF With, ForWinner, Lists
  <1>3. \A k \in Key : k # key => \A s \in w[k] : s \in l[k] /\ s \notin value
    BY <1>2, UncoveredLeaves
  <1> HIDE DEF w
  <1>4. SUFFICES ASSUME NEW s \in Single, NEW k \in Key, NEW m \in Key, s \in w[k], s \in w[m]
                 PROVE  k = m
    BY DEF OneListEach, w
  <1>5. CASE k = key \/ m = key
    BY <1>1, <1>3, <1>4, <1>5
  <1>6. CASE k # key /\ m # key
    BY <1>3, <1>4, <1>6 DEF OneListEach
  <1> QED BY <1>5, <1>6

LEMMA NoListsFact == NoLists \in Lists /\ OneListEach(NoLists)
  BY DEF NoLists, Lists, OneListEach

LEMMA PlaceType == ASSUME NEW l, NEW i PROVE Place(l, i) \in Places
  BY DEF Place, Places

LEMMA DecidedType ==
  ASSUME NEW l, NEW ips PROVE Decided(l, ips) \in [IP -> Places \cup {"any"}]
  BY PlaceType DEF Decided

LEMMA UndecidedType == Undecided \in [IP -> Places \cup {"any"}]
  BY DEF Undecided

-----------------------------------------------------------------------------
(* Jobs and tasks. *)

LEMMA JobType ==
  ASSUME NEW key \in Key, NEW value \in SUBSET Entry, NEW fail \in {"stop", "skip", "go"}
  PROVE  /\ SetJob(key, value, fail) \in Job
         /\ SetJob(key, value, fail).fail = fail
         /\ ReloadJob \in Job
         /\ ReloadJob.fail = "go"
  BY DEF SetJob, ReloadJob, Job

LEMMA IdleType == Idle \in Task /\ SkipsOneJob(Idle) /\ CopiesExclusive(Idle)
  <1>1. Idle.jobs = <<>> /\ Idle.got = NoLists /\ Idle.old = NoLists
    BY DEF Idle
  <1>2. Idle \in Task
    BY NoListsFact, UndecidedType DEF Idle, Task, Op
  <1> QED BY <1>1, <1>2, NoListsFact DEF SkipsOneJob, CopiesExclusive

\* What is left of the jobs after the first keeps the shape.
LEMMA TailKeeps ==
  ASSUME NEW t \in Task, SkipsOneJob(t), t.jobs # <<>>
  PROVE  /\ Tail(t.jobs) \in Seq(Job)
         /\ \A k \in 1..Len(Tail(t.jobs)) :
               Tail(t.jobs)[k].fail = "skip" => k < Len(Tail(t.jobs))
         /\ t.jobs[1].fail = "skip" => Tail(t.jobs) # <<>>
  <1>1. t.jobs \in Seq(Job) BY DEF Task
  <1>2. /\ Tail(t.jobs) \in Seq(Job)
        /\ Len(Tail(t.jobs)) = Len(t.jobs) - 1
        /\ \A k \in 1..Len(Tail(t.jobs)) : Tail(t.jobs)[k] = t.jobs[k + 1]
    BY <1>1, HeadTailProperties
  <1>3. Len(t.jobs) \in Nat /\ Len(t.jobs) # 0
    BY <1>1, EmptySeq, LenProperties
  <1>4. ASSUME NEW k \in 1..Len(Tail(t.jobs)), Tail(t.jobs)[k].fail = "skip"
        PROVE  k < Len(Tail(t.jobs))
    <2>1. k + 1 \in 1..Len(t.jobs) /\ t.jobs[k + 1].fail = "skip"
      BY <1>2, <1>3, <1>4
    <2>2. k + 1 < Len(t.jobs)
      BY <2>1 DEF SkipsOneJob
    <2> QED BY <1>2, <1>3, <2>2
  <1>5. ASSUME t.jobs[1].fail = "skip" PROVE Tail(t.jobs) # <<>>
    <2>1. 1 < Len(t.jobs)
      BY <1>3, <1>5 DEF SkipsOneJob
    <2> DEFINE n == Len(t.jobs)
               m == Len(Tail(t.jobs))
    <2>2. m = n - 1 /\ n \in Nat
      BY <1>2, <1>3
    <2>3. m # 0
      <3> HIDE DEF n, m
      <3>1. 1 < n
        BY <2>1 DEF n
      <3> QED BY <2>2, <3>1
    <2>4. Len(<<>>) = 0
      OBVIOUS
    <2> QED BY <2>3, <2>4
  <1> QED BY <1>2, <1>4, <1>5

LEMMA DoneType ==
  ASSUME NEW t \in Task, SkipsOneJob(t), CopiesExclusive(t), t.jobs # <<>>
  PROVE  Done(t) \in Task /\ SkipsOneJob(Done(t)) /\ CopiesExclusive(Done(t))
  <1>1. /\ Done(t).jobs = Tail(t.jobs) /\ Done(t).got = NoLists /\ Done(t).old = t.old
        /\ Done(t) = [t EXCEPT !.jobs = Tail(t.jobs), !.stage = "read", !.got = NoLists]
    BY DEF Done, Task
  <1>2. Done(t) \in Task
    BY <1>1, TailKeeps, NoListsFact DEF Task
  <1> QED BY <1>1, <1>2, TailKeeps, NoListsFact DEF SkipsOneJob, CopiesExclusive

LEMMA FailedType ==
  ASSUME NEW t \in Task, SkipsOneJob(t), CopiesExclusive(t), t.jobs # <<>>
  PROVE  Failed(t) \in Task /\ SkipsOneJob(Failed(t)) /\ CopiesExclusive(Failed(t))
  <1> DEFINE left == Tail(t.jobs)
             jobs == CASE t.jobs[1].fail = "stop" -> <<>>
                       [] t.jobs[1].fail = "skip" -> Tail(left)
                       [] OTHER -> left
             op == IF t.jobs[1].fail = "stop" THEN "idle" ELSE t.op
  <1>1. /\ left \in Seq(Job)
        /\ \A k \in 1..Len(left) : left[k].fail = "skip" => k < Len(left)
        /\ t.jobs[1].fail = "skip" => left # <<>>
    BY TailKeeps
  <1>2. op \in Op
    BY DEF Task, Op
  <1>3. /\ jobs \in Seq(Job)
        /\ \A k \in 1..Len(jobs) : jobs[k].fail = "skip" => k < Len(jobs)
    <2> HIDE DEF left
    <2>1. CASE t.jobs[1].fail = "stop"
      BY <2>1
    <2>2. CASE t.jobs[1].fail = "skip"
      <3>1. /\ Tail(left) \in Seq(Job)
            /\ Len(Tail(left)) = Len(left) - 1
            /\ \A k \in 1..Len(Tail(left)) : Tail(left)[k] = left[k + 1]
        BY <1>1, <2>2, HeadTailProperties
      <3>2. Len(left) \in Nat
        BY <1>1, LenProperties
      <3>3. ASSUME NEW k \in 1..Len(Tail(left)), Tail(left)[k].fail = "skip"
            PROVE  k < Len(Tail(left))
        <4>1. k + 1 \in 1..Len(left) /\ left[k + 1].fail = "skip"
          BY <3>1, <3>2, <3>3
        <4>2. k + 1 < Len(left)
          BY <1>1, <4>1
        <4> QED BY <3>1, <3>2, <4>2
      <3>4. jobs = Tail(left)
        BY <2>2
      <3> QED BY <3>1, <3>3, <3>4
    <2>3. CASE t.jobs[1].fail # "stop" /\ t.jobs[1].fail # "skip"
      BY <1>1, <2>3
    <2> QED BY <2>1, <2>2, <2>3
  <1>4. /\ Failed(t) = [t EXCEPT !.stage = "read", !.got = NoLists, !.want = Undecided,
                                 !.op = op, !.jobs = jobs]
        /\ Failed(t).jobs = jobs /\ Failed(t).got = NoLists /\ Failed(t).old = t.old
    BY DEF Failed, Task
  <1> HIDE DEF left, jobs, op
  <1>5. Failed(t) \in Task
    BY <1>2, <1>3, <1>4, NoListsFact, UndecidedType DEF Task
  <1> QED BY <1>3, <1>4, <1>5, NoListsFact DEF SkipsOneJob, CopiesExclusive

TaskOK(t) == t \in Task /\ SkipsOneJob(t) /\ CopiesExclusive(t)

\* Jobs laid out one after the other: Sets, the last of them followed by a reload.
LEMMA JobsThenReload ==
  ASSUME NEW front \in Seq(Job)
  PROVE  /\ front \o <<ReloadJob>> \in Seq(Job)
         /\ \A k \in 1..Len(front \o <<ReloadJob>>) :
               (front \o <<ReloadJob>>)[k].fail = "skip" => k < Len(front \o <<ReloadJob>>)
  <1>1. ReloadJob \in Job /\ ReloadJob.fail = "go"
    BY DEF ReloadJob, Job
  <1>2. /\ Len(front) \in Nat
        /\ Len(front \o <<ReloadJob>>) = Len(front) + 1
        /\ (front \o <<ReloadJob>>)[Len(front) + 1] = ReloadJob
        /\ front \o <<ReloadJob>> \in Seq(Job)
    BY <1>1
  <1>3. ASSUME NEW k \in 1..Len(front \o <<ReloadJob>>),
               (front \o <<ReloadJob>>)[k].fail = "skip"
        PROVE  k < Len(front \o <<ReloadJob>>)
    BY <1>1, <1>2, <1>3
  <1> QED BY <1>2, <1>3

LEMMA WritesType ==
  ASSUME NEW lists \in Lists, NEW order \in [1..3 -> Key]
  PROVE  /\ Writes(lists, order) \in Seq(Job)
         /\ \A k \in 1..Len(Writes(lists, order)) :
               Writes(lists, order)[k].fail = "skip" => k < Len(Writes(lists, order))
  <1> DEFINE front == [k \in 1..3 |-> SetJob(order[k], lists[order[k]], "stop")]
  <1>1. \A k \in 1..3 : SetJob(order[k], lists[order[k]], "stop") \in Job
    BY JobType DEF Lists
  <1>2. front \in Seq(Job)
    BY <1>1
  <1> HIDE DEF front
  <1>3. Writes(lists, order) = front \o <<ReloadJob>>
    BY DEF Writes, front
  <1> QED BY <1>2, <1>3, JobsThenReload

LEMMA ClearOrder == <<"black", "exempt", "force">> \in [1..3 -> Key]
  BY DEF Key

-----------------------------------------------------------------------------
(* One goroutine goes on, the others stay where they are. *)

LEMMA OneTask ==
  ASSUME IInv, NEW g \in Goroutine, NEW t, TaskOK(t), task' = [task EXCEPT ![g] = t]
  PROVE  /\ task' \in [Goroutine -> Task]
         /\ \A h \in Goroutine : SkipsOneJob(task'[h]) /\ CopiesExclusive(task'[h])
  <1>1. task \in [Goroutine -> Task] /\ \A h \in Goroutine : TaskOK(task[h])
    BY DEF IInv, StateOK, TaskOK
  <1>2. \A h \in Goroutine : task'[h] = IF h = g THEN t ELSE task[h]
    BY <1>1
  <1>3. \A h \in Goroutine : TaskOK(task'[h])
    BY <1>1, <1>2
  <1>4. task' \in [Goroutine -> Task]
    BY <1>1 DEF TaskOK
  <1> QED BY <1>3, <1>4 DEF TaskOK

LEMMA InitInv == Init => IInv
  <1> SUFFICES ASSUME Init PROVE IInv
    OBVIOUS
  <1>1. disk \in Lists /\ OneListEach(disk)
    <2>1. disk \in Lists /\ disk = Normalized(disk)
      BY DEF Init
    <2> QED BY <2>1, NormalizedOneListEach
  <1>2. task \in [Goroutine -> Task]
    BY IdleType DEF Init
  <1>3. \A g \in Goroutine : SkipsOneJob(task[g]) /\ CopiesExclusive(task[g])
    BY IdleType DEF Init
  <1>4. /\ torn \in BOOLEAN /\ cfg \in Lists /\ pool \in SUBSET IP
        /\ faults \in 0..MaxFaults
    <2>1. torn = FALSE /\ cfg = disk /\ pool = {} /\ faults = 0
      BY DEF Init
    <2>2. 0 \in 0..MaxFaults
      BY FaultsAssumption
    <2> QED BY <1>1, <2>1, <2>2
  <1>5. StateOK
    BY <1>1, <1>2, <1>4 DEF StateOK
  <1> QED BY <1>1, <1>3, <1>5 DEF IInv, ExclusiveOnDisk

LEMMA Facts ==
  ASSUME IInv, NEW g \in Goroutine
  PROVE  /\ TaskOK(task[g]) /\ task \in [Goroutine -> Task]
         /\ Normalized(disk) \in Lists /\ OneListEach(Normalized(disk))
         /\ disk \in Lists /\ cfg \in Lists /\ pool \in SUBSET IP
  BY NormalizedType, NormalizedOneListEach DEF IInv, StateOK, TaskOK

\* A copy of the file is read into a task.
LEMMA GotType ==
  ASSUME NEW t, TaskOK(t), NEW l \in Lists, OneListEach(l), NEW stage \in {"truncate", "write"}
  PROVE  TaskOK([t EXCEPT !.got = l, !.stage = stage])
  BY DEF TaskOK, Task, SkipsOneJob, CopiesExclusive

LEMMA SetsKeep == ASSUME IInv, NEW g \in Goroutine, Sets(g) PROVE IInv'
  <1>1. /\ TaskOK(task[g]) /\ task \in [Goroutine -> Task]
        /\ Normalized(disk) \in Lists /\ OneListEach(Normalized(disk))
        /\ disk \in Lists
    BY Facts
  <1>2. task[g].jobs # <<>>
    BY DEF Sets, SetReads, SetFails, SetTruncates, SetWrites, HasSet
  <1>3. TaskOK(Failed(task[g])) /\ TaskOK(Done(task[g]))
    BY <1>1, <1>2, FailedType, DoneType DEF TaskOK
  <1>4. CASE SetReads(g)
    <2> DEFINE t == IF torn THEN Failed(task[g])
                    ELSE [task[g] EXCEPT !.got = Normalized(disk), !.stage = "truncate"]
    <2>1. TaskOK([task[g] EXCEPT !.got = Normalized(disk), !.stage = "truncate"])
      BY <1>1, GotType
    <2>2. TaskOK(t)
      BY <1>3, <2>1
    <2>3. task' = [task EXCEPT ![g] = t]
      BY <1>4 DEF SetReads
    <2> HIDE DEF t
    <2> QED BY <1>4, <2>2, <2>3, OneTask DEF SetReads, IInv, StateOK, ExclusiveOnDisk
  <1>5. CASE SetFails(g)
    <2>1. task' = [task EXCEPT ![g] = Failed(task[g])]
      BY <1>5 DEF SetFails
    <2>2. faults' \in 0..MaxFaults
      BY <1>5, FaultsAssumption DEF SetFails, IInv, StateOK
    <2> QED BY <1>3, <1>5, <2>1, <2>2, OneTask DEF SetFails, IInv, StateOK, ExclusiveOnDisk
  <1>6. CASE SetTruncates(g)
    <2>1. task' = [task EXCEPT ![g] = [task[g] EXCEPT !.stage = "write"]]
      BY <1>1, <1>6 DEF SetTruncates
    <2>2. TaskOK([task[g] EXCEPT !.stage = "write"])
      BY <1>1 DEF TaskOK, Task, SkipsOneJob, CopiesExclusive
    <2> QED BY <1>6, <2>1, <2>2, OneTask DEF SetTruncates, IInv, StateOK, ExclusiveOnDisk
  <1>7. CASE SetWrites(g)
    <2>1. task' = [task EXCEPT ![g] = Done(task[g])]
      BY <1>7 DEF SetWrites
    <2>2. Head(task[g].jobs) \in Job /\ Head(task[g].jobs).key # "reload"
      BY <1>1, <1>2, <1>7, HeadTailProperties DEF SetWrites, HasSet, Job1, TaskOK, Task
    <2>3. Job1(g).key \in Key /\ Job1(g).value \in SUBSET Entry
      BY <2>2 DEF Job1, Job
    <2>4. task[g].got \in Lists /\ OneListEach(task[g].got)
      BY <1>1 DEF TaskOK, Task, CopiesExclusive
    <2>5. disk' \in Lists /\ OneListEach(disk')
      BY <1>7, <2>3, <2>4, WithType, WithOneListEach DEF SetWrites
    <2> QED BY <1>3, <1>7, <2>1, <2>5, OneTask DEF SetWrites, IInv, StateOK, ExclusiveOnDisk
  <1> QED BY <1>4, <1>5, <1>6, <1>7 DEF Sets

LEMMA ReloadsKeep == ASSUME IInv, NEW g \in Goroutine, Reloads(g) PROVE IInv'
  <1>1. /\ TaskOK(task[g]) /\ task \in [Goroutine -> Task]
        /\ Normalized(disk) \in Lists /\ OneListEach(Normalized(disk))
    BY Facts
  <1>2. task[g].jobs # <<>>
    BY DEF Reloads, ReloadReads, ReloadAssigns, HasJob
  <1>3. TaskOK(Failed(task[g])) /\ TaskOK(Done(task[g]))
    BY <1>1, <1>2, FailedType, DoneType DEF TaskOK
  <1>4. CASE ReloadReads(g)
    <2> DEFINE t == IF torn THEN Failed(task[g])
                    ELSE [task[g] EXCEPT !.got = Normalized(disk), !.stage = "write"]
    <2>1. TaskOK([task[g] EXCEPT !.got = Normalized(disk), !.stage = "write"])
      BY <1>1, GotType
    <2>2. TaskOK(t)
      BY <1>3, <2>1
    <2>3. task' = [task EXCEPT ![g] = t]
      BY <1>4 DEF ReloadReads
    <2> HIDE DEF t
    <2> QED BY <1>4, <2>2, <2>3, OneTask DEF ReloadReads, IInv, StateOK, ExclusiveOnDisk
  <1>5. CASE ReloadAssigns(g)
    <2>1. task' = [task EXCEPT ![g] = Done(task[g])]
      BY <1>5 DEF ReloadAssigns
    <2>2. cfg' \in Lists
      BY <1>1, <1>5 DEF ReloadAssigns, TaskOK, Task
    <2> QED BY <1>3, <1>5, <2>1, <2>2, OneTask DEF ReloadAssigns, IInv, StateOK, ExclusiveOnDisk
  <1> QED BY <1>4, <1>5 DEF Reloads

-----------------------------------------------------------------------------
(* The tests. *)

\* A step that leaves the file alone: IInv' from its effect on the rest.
LEMMA FileUnchanged ==
  ASSUME IInv, NEW g \in Goroutine, NEW t, TaskOK(t), task' = [task EXCEPT ![g] = t],
         cfg' \in Lists, pool' \in SUBSET IP, UNCHANGED <<disk, torn, faults>>
  PROVE  IInv'
  BY OneTask DEF IInv, StateOK, ExclusiveOnDisk

\* A fresh task with its jobs, and a task that decides something.
LEMMA NewTask ==
  ASSUME NEW op \in Op, NEW jobs \in Seq(Job), NEW want \in [IP -> Places \cup {"any"}],
         NEW ips \in SUBSET IP, NEW forced \in SUBSET IP,
         \A k \in 1..Len(jobs) : jobs[k].fail = "skip" => k < Len(jobs)
  PROVE  TaskOK([Idle EXCEPT !.op = op, !.jobs = jobs, !.want = want,
                             !.ips = ips, !.forced = forced])
  <1> DEFINE t == [Idle EXCEPT !.op = op, !.jobs = jobs, !.want = want,
                               !.ips = ips, !.forced = forced]
  <1>1. t.jobs = jobs /\ t.got = Idle.got /\ t.old = Idle.old
    BY DEF Idle
  <1>2. t \in Task
    BY IdleType DEF Task
  <1> HIDE DEF t
  <1>3. TaskOK(t)
    BY <1>1, <1>2, IdleType DEF TaskOK, SkipsOneJob, CopiesExclusive
  <1> QED BY <1>3 DEF t

LEMMA Decides ==
  ASSUME NEW t, TaskOK(t), NEW jobs \in Seq(Job), NEW want \in [IP -> Places \cup {"any"}],
         NEW ips \in SUBSET IP, NEW passed \in SUBSET IP,
         \A k \in 1..Len(jobs) : jobs[k].fail = "skip" => k < Len(jobs)
  PROVE  TaskOK([t EXCEPT !.ips = ips, !.passed = passed, !.want = want, !.jobs = jobs])
  <1> DEFINE u == [t EXCEPT !.ips = ips, !.passed = passed, !.want = want, !.jobs = jobs]
  <1>1. u.jobs = jobs /\ u.got = t.got /\ u.old = t.old /\ u \in Task
    BY DEF TaskOK, Task
  <1> HIDE DEF u
  <1>2. TaskOK(u)
    BY <1>1 DEF TaskOK, SkipsOneJob, CopiesExclusive
  <1> QED BY <1>2 DEF u

LEMMA Moves ==
  ASSUME NEW t, TaskOK(t), NEW ips \in SUBSET IP, NEW passed \in SUBSET IP
  PROVE  TaskOK([t EXCEPT !.ips = ips, !.passed = passed])
  <1> DEFINE u == [t EXCEPT !.ips = ips, !.passed = passed]
  <1>1. u.jobs = t.jobs /\ u.got = t.got /\ u.old = t.old /\ u \in Task
    BY DEF TaskOK, Task
  <1> HIDE DEF u
  <1>2. TaskOK(u)
    BY <1>1 DEF TaskOK, SkipsOneJob, CopiesExclusive
  <1> QED BY <1>2 DEF u

LEMMA IdleOK == TaskOK(Idle)
  BY IdleType DEF TaskOK

LEMMA NoJobs ==
  /\ <<>> \in Seq(Job)
  /\ \A k \in 1..Len(<<>>) : <<>>[k].fail = "skip" => k < Len(<<>>)
  OBVIOUS

LEMMA OneJobThenReload ==
  ASSUME NEW key \in Key, NEW value \in SUBSET Entry, NEW fail \in {"stop", "skip", "go"}
  PROVE  LET jobs == <<SetJob(key, value, fail), ReloadJob>>
         IN /\ jobs \in Seq(Job)
            /\ \A k \in 1..Len(jobs) : jobs[k].fail = "skip" => k < Len(jobs)
  <1>1. SetJob(key, value, fail) \in Job /\ ReloadJob \in Job /\ ReloadJob.fail = "go"
    BY JobType
  <1> HIDE DEF SetJob, ReloadJob
  <1> QED BY <1>1

\* What removeSlowPostPoolIP writes: nothing, one list or two.
LEMMA TwoWrites ==
  ASSUME NEW one \in Seq(Job), NEW two \in Seq(Job),
         \A k \in 1..Len(one) : one[k].fail = "skip" => k < Len(one),
         \A k \in 1..Len(two) : two[k].fail = "skip" => k < Len(two)
  PROVE  /\ one \o two \in Seq(Job)
         /\ \A k \in 1..Len(one \o two) : (one \o two)[k].fail = "skip" => k < Len(one \o two)
  <1>1. /\ Len(one) \in Nat /\ Len(two) \in Nat /\ one \o two \in Seq(Job)
        /\ Len(one \o two) = Len(one) + Len(two)
        /\ \A k \in 1..Len(one) : (one \o two)[k] = one[k]
        /\ \A k \in Len(one) + 1 .. Len(one) + Len(two) : (one \o two)[k] = two[k - Len(one)]
    BY ConcatProperties, LenProperties
  <1>2. ASSUME NEW k \in 1..Len(one \o two), (one \o two)[k].fail = "skip"
        PROVE  k < Len(one \o two)
    <2>1. CASE k \in 1..Len(one)
      BY <1>1, <1>2, <2>1
    <2>2. CASE k \in Len(one) + 1 .. Len(one) + Len(two)
      <3>1. k - Len(one) \in 1..Len(two) /\ two[k - Len(one)].fail = "skip"
        BY <1>1, <1>2, <2>2
      <3>2. k - Len(one) < Len(two)
        BY <3>1
      <3> QED BY <1>1, <2>2, <3>2
    <2> QED BY <1>1, <1>2, <2>1, <2>2
  <1> QED BY <1>1, <1>2

LEMMA StartRoundKeeps ==
  ASSUME IInv, NEW g \in Goroutine, NEW p \in SUBSET IP, StartRound(g, p)
  PROVE  IInv'
  <1> DEFINE tested == {i \in p : ~Matches(i, cfg["exempt"]) \/ Matches(i, cfg["force"])}
             forced == {i \in tested : Matches(i, cfg["force"])}
             t == [Idle EXCEPT !.op = "round", !.ips = tested, !.forced = forced]
  <1>1. task' = [task EXCEPT ![g] = t]
    BY DEF StartRound, Start
  <1>2. tested \in SUBSET IP /\ forced \in SUBSET IP
    OBVIOUS
  <1> HIDE DEF tested, forced
  <1>3. Idle \in Task /\ Idle.jobs = <<>> /\ CopiesExclusive(Idle)
    BY IdleType DEF Idle
  <1>4. TaskOK(t)
    <2>1. t \in Task /\ t.jobs = Idle.jobs /\ t.got = Idle.got /\ t.old = Idle.old
      BY <1>2, <1>3 DEF Task, Op
    <2> HIDE DEF t
    <2> QED BY <1>3, <2>1 DEF TaskOK, SkipsOneJob, CopiesExclusive
  <1>5. cfg' \in Lists /\ pool' \in SUBSET IP /\ UNCHANGED <<disk, torn, faults>>
    BY Facts DEF StartRound
  <1> HIDE DEF t
  <1> QED BY <1>1, <1>4, <1>5, FileUnchanged

LEMMA TestPassesKeeps ==
  ASSUME IInv, NEW g \in Goroutine, NEW i \in IP, TestPasses(g, i)
  PROVE  IInv'
  <1>1. TaskOK(task[g]) /\ task \in [Goroutine -> Task]
    BY Facts
  <1> DEFINE ips == task[g].ips \ {i}
             passed == IF i \in task[g].forced THEN task[g].passed ELSE task[g].passed \cup {i}
             t == [task[g] EXCEPT !.ips = ips, !.passed = passed]
  <1>2. ips \in SUBSET IP /\ passed \in SUBSET IP
    BY <1>1 DEF TaskOK, Task
  <1>3. task' = [task EXCEPT ![g] = t]
    BY <1>1 DEF TestPasses
  <1>4. TaskOK(t)
    <2> HIDE DEF ips, passed
    <2> QED BY <1>1, <1>2, Moves
  <1>5. cfg' \in Lists /\ pool' \in SUBSET IP /\ UNCHANGED <<disk, torn, faults>>
    BY Facts DEF TestPasses
  <1> HIDE DEF t
  <1> QED BY <1>3, <1>4, <1>5, FileUnchanged

LEMMA TestFailsKeeps ==
  ASSUME IInv, NEW g \in Goroutine, NEW i \in IP, TestFails(g, i)
  PROVE  IInv'
  <1>1. TaskOK(task[g]) /\ task \in [Goroutine -> Task] /\ cfg \in Lists /\ pool \in SUBSET IP
    BY Facts
  <1> DEFINE isForced == i \in pool /\ i \in task[g].forced
             barred == i \in pool /\ (AutoBlacklist \/ i \in task[g].forced)
             black == IF barred THEN cfg["black"] \cup {{i}} ELSE cfg["black"]
             force == IF isForced THEN cfg["force"] \ {{i}} ELSE cfg["force"]
             one == IF black = cfg["black"] THEN <<>>
                    ELSE <<SetJob("black", black, "skip"), ReloadJob>>
             two == IF force = cfg["force"] THEN <<>>
                    ELSE <<SetJob("force", force, "skip"), ReloadJob>>
             want == Decided(cfg', IF barred THEN {i} ELSE {})
             ips == task[g].ips \ {i}
             t == [task[g] EXCEPT !.ips = ips, !.passed = task[g].passed, !.want = want,
                                  !.jobs = one \o two]
  <1>2. black \in SUBSET Entry /\ force \in SUBSET Entry
    BY <1>1 DEF Lists, Key, Entry, Single
  <1>3. cfg' = [cfg EXCEPT !["black"] = black, !["force"] = force]
    BY DEF TestFails
  <1>4. cfg' \in Lists
    <2> HIDE DEF black, force
    <2> QED BY <1>1, <1>2, <1>3 DEF Lists
  <1>5. ips \in SUBSET IP /\ task[g].passed \in SUBSET IP
    BY <1>1 DEF TaskOK, Task
  <1>6. task' = [task EXCEPT ![g] = t]
    <2>1. task' = [task EXCEPT ![g].ips = @ \ {i}, ![g].want = want, ![g].jobs = one \o two]
      BY DEF TestFails
    <2> HIDE DEF one, two, want
    <2> QED BY <1>1, <2>1 DEF TaskOK, Task
  <1>7. want \in [IP -> Places \cup {"any"}]
    BY DecidedType
  <1>8. /\ one \in Seq(Job) /\ \A k \in 1..Len(one) : one[k].fail = "skip" => k < Len(one)
        /\ two \in Seq(Job) /\ \A k \in 1..Len(two) : two[k].fail = "skip" => k < Len(two)
    <2> HIDE DEF black, force
    <2>1. "black" \in Key /\ "force" \in Key /\ "skip" \in {"stop", "skip", "go"}
      BY DEF Key
    <2> QED BY <1>2, <2>1, OneJobThenReload, NoJobs
  <1>9. /\ one \o two \in Seq(Job)
        /\ \A k \in 1..Len(one \o two) : (one \o two)[k].fail = "skip" => k < Len(one \o two)
    <2> HIDE DEF one, two
    <2> QED BY <1>8, TwoWrites
  <1>10. TaskOK(t)
    <2> HIDE DEF one, two, want, ips
    <2> QED BY <1>1, <1>5, <1>7, <1>9, Decides
  <1>11. pool' \in SUBSET IP /\ UNCHANGED <<disk, torn, faults>>
    BY <1>1 DEF TestFails
  <1> HIDE DEF t
  <1> QED BY <1>4, <1>6, <1>10, <1>11, FileUnchanged

LEMMA RoundInterruptedKeeps ==
  ASSUME IInv, NEW g \in Goroutine, RoundInterrupted(g)
  PROVE  IInv'
  <1>1. TaskOK(task[g]) /\ task \in [Goroutine -> Task]
    BY Facts
  <1> DEFINE t == [task[g] EXCEPT !.ips = {}, !.passed = task[g].passed]
  <1>2. task[g].passed \in SUBSET IP
    BY <1>1 DEF TaskOK, Task
  <1>3. task' = [task EXCEPT ![g] = t]
    BY <1>1 DEF RoundInterrupted, TaskOK, Task
  <1>4. TaskOK(t)
    BY <1>1, <1>2, Moves
  <1>5. cfg' \in Lists /\ pool' \in SUBSET IP /\ UNCHANGED <<disk, torn, faults>>
    BY Facts DEF RoundInterrupted
  <1> HIDE DEF t
  <1> QED BY <1>3, <1>4, <1>5, FileUnchanged

LEMMA RoundEndsKeeps ==
  ASSUME IInv, NEW g \in Goroutine, RoundEnds(g)
  PROVE  IInv'
  <1>1. TaskOK(task[g]) /\ task \in [Goroutine -> Task] /\ cfg \in Lists /\ pool \in SUBSET IP
    BY Facts
  <1> DEFINE added == {{i} : i \in {j \in task[g].passed : ~Matches(j, cfg["exempt"])}}
             exempt == cfg["exempt"] \cup added
             want == Decided(cfg', UNION added)
             jobs == <<SetJob("exempt", exempt, "stop"), ReloadJob>>
             ips == task[g].ips
             t == [task[g] EXCEPT !.ips = ips, !.passed = {}, !.want = want, !.jobs = jobs]
  <1>2. pool' \in SUBSET IP /\ UNCHANGED <<disk, torn, faults>>
    BY <1>1 DEF RoundEnds
  <1>3. CASE added = {}
    <2>1. task' = [task EXCEPT ![g] = Idle] /\ cfg' \in Lists
      BY <1>1, <1>3 DEF RoundEnds
    <2> QED BY <1>2, <2>1, IdleOK, FileUnchanged
  <1>4. CASE added # {}
    <2>1. ips \in SUBSET IP /\ task[g].passed \in SUBSET IP
      BY <1>1 DEF TaskOK, Task
    <2>2. added \in SUBSET Entry
      BY <2>1 DEF Entry, Single
    <2>3. exempt \in SUBSET Entry
      <3> HIDE DEF added
      <3> QED BY <1>1, <2>2 DEF Lists, Key
    <2>4. /\ cfg' = [cfg EXCEPT !["exempt"] = exempt]
          /\ task' = [task EXCEPT ![g].passed = {}, ![g].want = want, ![g].jobs = jobs]
      BY <1>4 DEF RoundEnds
    <2>5. want \in [IP -> Places \cup {"any"}]
      BY DecidedType
    <2>6. jobs \in Seq(Job) /\ \A k \in 1..Len(jobs) : jobs[k].fail = "skip" => k < Len(jobs)
      <3> HIDE DEF exempt
      <3>1. "exempt" \in Key /\ "stop" \in {"stop", "skip", "go"}
        BY DEF Key
      <3> QED BY <2>3, <3>1, OneJobThenReload
    <2> HIDE DEF exempt, want, jobs
    <2>7. cfg' \in Lists
      BY <1>1, <2>3, <2>4 DEF Lists
    <2>8. task' = [task EXCEPT ![g] = t]
      BY <1>1, <2>4 DEF TaskOK, Task
    <2>9. TaskOK(t)
      BY <1>1, <2>1, <2>5, <2>6, Decides
    <2> HIDE DEF t
    <2> QED BY <1>2, <2>7, <2>8, <2>9, FileUnchanged
  <1> QED BY <1>3, <1>4

LEMMA RestoreJobs ==
  ASSUME NEW a \in SUBSET Entry, NEW b \in SUBSET Entry, NEW c \in SUBSET Entry
  PROVE  LET jobs == <<SetJob("black", a, "stop"), SetJob("exempt", b, "go"),
                       SetJob("force", c, "go"), ReloadJob>>
         IN /\ jobs \in Seq(Job)
            /\ \A k \in 1..Len(jobs) : jobs[k].fail = "skip" => k < Len(jobs)
  <1>1. {"black", "exempt", "force"} \subseteq Key
    BY DEF Key
  <1>2. /\ SetJob("black", a, "stop") \in Job /\ SetJob("black", a, "stop").fail = "stop"
        /\ SetJob("exempt", b, "go") \in Job /\ SetJob("exempt", b, "go").fail = "go"
        /\ SetJob("force", c, "go") \in Job /\ SetJob("force", c, "go").fail = "go"
        /\ ReloadJob \in Job /\ ReloadJob.fail = "go"
    BY <1>1, JobType
  <1> HIDE DEF SetJob, ReloadJob
  <1> QED BY <1>2

LEMMA StartRestoreKeeps ==
  ASSUME IInv, NEW g \in Goroutine, StartRestore(g)
  PROVE  IInv'
  <1> DEFINE candidates == {i \in IP : {i} \in cfg["black"]}
             t == [Idle EXCEPT !.op = "restore", !.ips = candidates]
  <1>1. task' = [task EXCEPT ![g] = t]
    BY DEF StartRestore, Start
  <1>2. Idle \in Task /\ CopiesExclusive(Idle) /\ SkipsOneJob(Idle)
    BY IdleType
  <1>3. TaskOK(t)
    <2>1. candidates \in SUBSET IP
      OBVIOUS
    <2> HIDE DEF candidates
    <2>2. t \in Task /\ t.jobs = Idle.jobs /\ t.got = Idle.got /\ t.old = Idle.old
      BY <1>2, <2>1 DEF Task, Op
    <2> HIDE DEF t
    <2> QED BY <1>2, <2>2 DEF TaskOK, SkipsOneJob, CopiesExclusive
  <1>4. cfg' \in Lists /\ pool' \in SUBSET IP /\ UNCHANGED <<disk, torn, faults>>
    BY Facts DEF StartRestore
  <1> HIDE DEF t
  <1> QED BY <1>1, <1>3, <1>4, FileUnchanged

LEMMA RestoresKeeps ==
  ASSUME IInv, NEW g \in Goroutine, NEW fast \in SUBSET IP, Restores(g, fast)
  PROVE  IInv'
  <1>1. TaskOK(task[g]) /\ task \in [Goroutine -> Task] /\ cfg \in Lists /\ pool \in SUBSET IP
    BY Facts
  <1> DEFINE back == {{i} : i \in fast}
             black == cfg["black"] \ back
             exempt == cfg["exempt"] \ back
             force == cfg["force"] \cup {{i} : i \in {j \in fast : ~Matches(j, cfg["force"])}}
             lists == [k \in Key |-> CASE k = "black" -> black
                                       [] k = "force" -> force
                                       [] k = "exempt" -> exempt]
             want == Decided(cfg', fast)
             jobs == <<SetJob("black", black, "stop"), SetJob("exempt", exempt, "go"),
                       SetJob("force", force, "go"), ReloadJob>>
             t == [task[g] EXCEPT !.ips = {}, !.passed = task[g].passed, !.want = want,
                                  !.jobs = jobs]
  <1>2. pool' \in SUBSET IP /\ UNCHANGED <<disk, torn, faults>>
    BY <1>1 DEF Restores
  <1>3. CASE fast = {}
    <2>1. task' = [task EXCEPT ![g] = Idle] /\ cfg' \in Lists
      BY <1>1, <1>3 DEF Restores
    <2> QED BY <1>2, <2>1, IdleOK, FileUnchanged
  <1>4. CASE fast # {}
    <2>1. /\ black \in SUBSET Entry /\ exempt \in SUBSET Entry /\ force \in SUBSET Entry
      BY <1>1 DEF Lists, Key, Entry, Single
    <2>2. /\ cfg' = lists
          /\ task' = [task EXCEPT ![g].ips = {}, ![g].want = want, ![g].jobs = jobs]
      BY <1>4 DEF Restores
    <2>3. cfg' \in Lists
      <3> HIDE DEF black, exempt, force
      <3> QED BY <2>1, <2>2 DEF Lists, Key
    <2>4. want \in [IP -> Places \cup {"any"}]
      BY DecidedType
    <2>5. jobs \in Seq(Job) /\ \A k \in 1..Len(jobs) : jobs[k].fail = "skip" => k < Len(jobs)
      <3> HIDE DEF black, exempt, force
      <3> QED BY <2>1, RestoreJobs
    <2>6. task[g].passed \in SUBSET IP
      BY <1>1 DEF TaskOK, Task
    <2> HIDE DEF want, jobs
    <2>7. task' = [task EXCEPT ![g] = t]
      BY <1>1, <2>2 DEF TaskOK, Task
    <2>8. TaskOK(t)
      BY <1>1, <2>4, <2>5, <2>6, Decides
    <2> HIDE DEF t
    <2> QED BY <1>2, <2>3, <2>7, <2>8, FileUnchanged
  <1> QED BY <1>3, <1>4

LEMMA EvictKeeps ==
  ASSUME IInv, NEW g \in Goroutine, NEW out \in SUBSET IP, Evict(g, out)
  PROVE  IInv'
  <1>1. cfg \in Lists
    BY Facts
  <1> DEFINE exempt == cfg["exempt"] \ {{i} : i \in out}
             want == Decided(cfg', out)
             jobs == <<SetJob("exempt", exempt, "stop"), ReloadJob>>
             t == [Idle EXCEPT !.op = "evict", !.want = want, !.jobs = jobs]
  <1>2. task' = [task EXCEPT ![g] = t]
    BY DEF Evict, Start
  <1>3. exempt \in SUBSET Entry
    BY <1>1 DEF Lists, Key
  <1>4. cfg' = [cfg EXCEPT !["exempt"] = exempt]
    BY DEF Evict
  <1>5. want \in [IP -> Places \cup {"any"}]
    BY DecidedType
  <1>6. jobs \in Seq(Job) /\ \A k \in 1..Len(jobs) : jobs[k].fail = "skip" => k < Len(jobs)
    <2> HIDE DEF exempt
    <2>1. "exempt" \in Key /\ "stop" \in {"stop", "skip", "go"}
      BY DEF Key
    <2> QED BY <1>3, <2>1, OneJobThenReload
  <1> HIDE DEF exempt, want, jobs
  <1>7. cfg' \in Lists
    BY <1>1, <1>3, <1>4 DEF Lists
  <1>8. Idle \in Task /\ CopiesExclusive(Idle)
    BY IdleType
  <1>9. TaskOK(t)
    <2>1. t \in Task /\ t.jobs = jobs /\ t.got = Idle.got /\ t.old = Idle.old
      BY <1>5, <1>6, <1>8 DEF Task, Op
    <2> HIDE DEF t
    <2> QED BY <1>6, <1>8, <2>1 DEF TaskOK, SkipsOneJob, CopiesExclusive
  <1>10. pool' \in SUBSET IP /\ UNCHANGED <<disk, torn, faults>>
    BY Facts DEF Evict
  <1> HIDE DEF t
  <1> QED BY <1>2, <1>7, <1>9, <1>10, FileUnchanged

LEMMA TestsKeep == ASSUME IInv, NEW g \in Goroutine, Tests(g) PROVE IInv'
  <1>1. CASE TesterEnds(g)
    <2>1. /\ task' = [task EXCEPT ![g] = Idle] /\ cfg' \in Lists /\ pool' \in SUBSET IP
          /\ UNCHANGED <<disk, torn, faults>>
      BY <1>1, Facts DEF TesterEnds
    <2> QED BY <2>1, IdleOK, FileUnchanged
  <1> QED BY <1>1, StartRoundKeeps, TestPassesKeeps, TestFailsKeeps, RoundInterruptedKeeps,
             RoundEndsKeeps, StartRestoreKeeps, RestoresKeeps, EvictKeeps DEF Tests, Round

-----------------------------------------------------------------------------
(* The user. *)

LEMMA ExclusiveType ==
  ASSUME NEW form \in Lists, NEW previous \in Lists
  PROVE  Exclusive(form, previous) \in Lists
  BY DEF Exclusive, Lists, Key

LEMMA RequestTask ==
  ASSUME NEW op \in Op, NEW lists \in Lists, NEW order \in [1..3 -> Key],
         NEW want \in [IP -> Places \cup {"any"}]
  PROVE  TaskOK([Idle EXCEPT !.op = op, !.jobs = Writes(lists, order), !.want = want])
  <1> DEFINE jobs == Writes(lists, order)
             t == [Idle EXCEPT !.op = op, !.jobs = jobs, !.want = want]
  <1>1. jobs \in Seq(Job) /\ \A k \in 1..Len(jobs) : jobs[k].fail = "skip" => k < Len(jobs)
    BY WritesType
  <1>2. Idle \in Task /\ CopiesExclusive(Idle)
    BY IdleType
  <1> HIDE DEF jobs
  <1>3. t \in Task /\ t.jobs = jobs /\ t.got = Idle.got /\ t.old = Idle.old
    BY <1>1, <1>2 DEF Task
  <1> HIDE DEF t
  <1>4. TaskOK(t)
    BY <1>1, <1>2, <1>3 DEF TaskOK, SkipsOneJob, CopiesExclusive
  <1> QED BY <1>4 DEF t, jobs

LEMMA RequestsKeep == ASSUME IInv, NEW g \in Goroutine, Requests(g) PROVE IInv'
  <1>1. /\ cfg \in Lists /\ pool \in SUBSET IP /\ Normalized(disk) \in Lists
    BY Facts
  <1>2. ASSUME NEW form \in Lists, NEW order \in Orders, StartSave(g, form, order)
        PROVE  IInv'
    <2> DEFINE lists == Exclusive(form, IF torn THEN cfg ELSE Normalized(disk))
               want == Decided(lists, Unambiguous(lists))
               t == [Idle EXCEPT !.op = "save", !.jobs = Writes(lists, order), !.want = want]
    <2>1. lists \in Lists /\ order \in [1..3 -> Key]
      BY <1>1, ExclusiveType DEF Orders
    <2>2. task' = [task EXCEPT ![g] = t]
      BY <1>2 DEF StartSave, Start
    <2>3. want \in [IP -> Places \cup {"any"}]
      BY DecidedType
    <2> HIDE DEF lists, want
    <2>4. TaskOK(t)
      BY <2>1, <2>3, RequestTask DEF Op
    <2>5. cfg' \in Lists /\ pool' \in SUBSET IP /\ UNCHANGED <<disk, torn, faults>>
      BY <1>1, <1>2 DEF StartSave
    <2> HIDE DEF t
    <2> QED BY <2>2, <2>4, <2>5, FileUnchanged
  <1>3. CASE StartClear(g)
    <2> DEFINE want == Decided(NoLists, IP)
               order == <<"black", "exempt", "force">>
               t == [Idle EXCEPT !.op = "clear", !.want = want, !.jobs = Writes(NoLists, order)]
    <2>1. task' = [task EXCEPT ![g] = t]
      BY <1>3 DEF StartClear, Start
    <2>2. want \in [IP -> Places \cup {"any"}] /\ order \in [1..3 -> Key]
      BY DecidedType, ClearOrder
    <2> HIDE DEF want, order
    <2>3. TaskOK([Idle EXCEPT !.op = "clear", !.jobs = Writes(NoLists, order), !.want = want])
      BY <2>2, NoListsFact, RequestTask DEF Op
    <2>4. TaskOK(t)
      BY <2>3 DEF Idle
    <2>5. cfg' \in Lists /\ pool' \in SUBSET IP /\ UNCHANGED <<disk, torn, faults>>
      BY <1>1, <1>3 DEF StartClear
    <2> HIDE DEF t
    <2> QED BY <2>1, <2>4, <2>5, FileUnchanged
  <1>4. CASE SaveEnds(g) \/ ClearEnds(g)
    <2>1. /\ task' = [task EXCEPT ![g] = Idle] /\ cfg' \in Lists /\ pool' \in SUBSET IP
          /\ UNCHANGED <<disk, torn, faults>>
      BY <1>1, <1>4 DEF SaveEnds, ClearEnds
    <2> QED BY <2>1, IdleOK, FileUnchanged
  <1> QED BY <1>2, <1>3, <1>4 DEF Requests

\* A goroutine's step of an edit of the whole file.
LEMMA EditsKeep == ASSUME IInv, NEW g \in Goroutine, Edits(g) PROVE IInv'
  <1>1. /\ TaskOK(task[g]) /\ task \in [Goroutine -> Task]
        /\ disk \in Lists /\ cfg \in Lists /\ pool \in SUBSET IP
    BY Facts
  <1>2. OneListEach(disk) /\ torn \in BOOLEAN
    BY DEF IInv, StateOK, ExclusiveOnDisk
  <1>3. ASSUME NEW form \in Lists, StartEdit(g, form) PROVE IInv'
    <2> DEFINE got == Normalized(form)
               t == [Idle EXCEPT !.op = "edit", !.stage = "truncate", !.got = got,
                                 !.old = disk, !.oldTorn = torn]
    <2>1. task' = [task EXCEPT ![g] = t]
      BY <1>3 DEF StartEdit, Start
    <2>2. got \in Lists /\ OneListEach(got)
      BY NormalizedType, NormalizedOneListEach
    <2> HIDE DEF got
    <2>3. t \in Task /\ t.jobs = Idle.jobs /\ t.got = got /\ t.old = disk
      BY <1>1, <1>2, <2>2, IdleType DEF Task, Op
    <2> HIDE DEF t
    <2>4. TaskOK(t)
      BY <1>2, <2>2, <2>3, IdleType DEF TaskOK, SkipsOneJob, CopiesExclusive
    <2>5. cfg' \in Lists /\ pool' \in SUBSET IP /\ UNCHANGED <<disk, torn, faults>>
      BY <1>1, <1>3 DEF StartEdit
    <2> QED BY <2>1, <2>4, <2>5, FileUnchanged
  <1>4. CASE EditFails(g) \/ EditUndone(g)
    <2>1. /\ task' = [task EXCEPT ![g] = Idle] /\ cfg' \in Lists /\ pool' \in SUBSET IP
          /\ UNCHANGED <<disk, torn, faults>>
      BY <1>1, <1>4 DEF EditFails, EditUndone
    <2> QED BY <2>1, IdleOK, FileUnchanged
  <1>5. CASE EditTruncates(g)
    <2>1. task' = [task EXCEPT ![g] = [task[g] EXCEPT !.stage = "write"]]
      BY <1>1, <1>5 DEF EditTruncates
    <2>2. TaskOK([task[g] EXCEPT !.stage = "write"])
      BY <1>1 DEF TaskOK, Task, SkipsOneJob, CopiesExclusive
    <2> QED BY <1>5, <2>1, <2>2, OneTask DEF EditTruncates, IInv, StateOK, ExclusiveOnDisk
  <1>6. CASE EditWrites(g)
    <2>1. task' = [task EXCEPT ![g] = [task[g] EXCEPT !.stage = "check"]]
      BY <1>1, <1>6 DEF EditWrites
    <2>2. TaskOK([task[g] EXCEPT !.stage = "check"])
      BY <1>1 DEF TaskOK, Task, SkipsOneJob, CopiesExclusive
    <2>3. disk' \in Lists /\ OneListEach(disk') /\ torn' \in BOOLEAN
      BY <1>1, <1>6 DEF EditWrites, TaskOK, Task, CopiesExclusive
    <2> QED BY <1>6, <2>1, <2>2, <2>3, OneTask DEF EditWrites, IInv, StateOK, ExclusiveOnDisk
  <1>7. CASE EditAccepted(g)
    <2> DEFINE want == Decided(task[g].got, IP)
               jobs == <<ReloadJob>>
               t == [Idle EXCEPT !.op = "save", !.jobs = jobs, !.want = want]
    <2>1. task' = [task EXCEPT ![g] = t]
      BY <1>7 DEF EditAccepted
    <2>2. want \in [IP -> Places \cup {"any"}]
      BY DecidedType
    <2>3. jobs \in Seq(Job) /\ \A k \in 1..Len(jobs) : jobs[k].fail = "skip" => k < Len(jobs)
      <3>1. ReloadJob \in Job /\ ReloadJob.fail = "go"
        BY DEF ReloadJob, Job
      <3> HIDE DEF ReloadJob
      <3> QED BY <3>1
    <2> HIDE DEF want, jobs
    <2>4. t \in Task /\ t.jobs = jobs /\ t.got = Idle.got /\ t.old = Idle.old
      BY <2>2, <2>3, IdleType DEF Task, Op
    <2> HIDE DEF t
    <2>5. TaskOK(t)
      BY <2>3, <2>4, IdleType DEF TaskOK, SkipsOneJob, CopiesExclusive
    <2>6. cfg' \in Lists /\ pool' \in SUBSET IP /\ UNCHANGED <<disk, torn, faults>>
      BY <1>1, <1>7 DEF EditAccepted
    <2> QED BY <2>1, <2>5, <2>6, FileUnchanged
  <1>8. CASE EditRejected(g)
    <2> DEFINE t == [task[g] EXCEPT !.op = "undo", !.stage = "truncate", !.got = task[g].old]
    <2>1. task' = [task EXCEPT ![g] = t]
      BY <1>1, <1>8 DEF EditRejected
    <2>2. TaskOK(t)
      BY <1>1 DEF TaskOK, Task, Op, SkipsOneJob, CopiesExclusive
    <2>3. cfg' \in Lists /\ pool' \in SUBSET IP /\ UNCHANGED <<disk, torn, faults>>
      BY <1>1, <1>8 DEF EditRejected
    <2> HIDE DEF t
    <2> QED BY <2>1, <2>2, <2>3, FileUnchanged
  <1> QED BY <1>3, <1>4, <1>5, <1>6, <1>7, <1>8 DEF Edits

-----------------------------------------------------------------------------
(* Who meets nobody keeps file and lists in use in step, or brings them there. *)

LoneHyp == IInv /\ LoneInv /\ Recorded

\* g goes on, or starts, with nobody else at work since it began.
Lone(g) == g \notin met /\ \A h \in Goroutine : Busy(h) => h = g

\* What the history says of the step of one goroutine.
LEMMA LoneStep ==
  ASSUME LoneHyp, NEW g \in Goroutine, NEW t \in Task, task' = [task EXCEPT ![g] = t],
         Shaped(t), Busy(g) \/ t.op # "idle", Reassigning(g) => t.op # "idle",
         Lone(g) => ReadsTruly(g)',
         Lone(g) /\ faults' = faults /\ (agreed \/ Reassigning(g)) =>
             IF t.op = "idle" THEN Settled' ELSE Course(g)'
  PROVE  LoneInv'
  <1>1. task \in [Goroutine -> Task]
    BY DEF LoneHyp, IInv, StateOK
  <1>2. task'[g] = t /\ \A h \in Goroutine : h # g => task'[h] = task[h]
    BY <1>1
  <1>3. /\ Busy(g)' <=> t.op # "idle"
        /\ \A h \in Goroutine : h # g => (Busy(h)' <=> Busy(h))
    BY <1>2 DEF Busy
  <1>4. \A h \in Goroutine :
           h \in met' <=> Busy(h)' /\ (h \in met \/ \E k \in Goroutine : k # h /\ Busy(k)')
    BY DEF LoneHyp, Recorded
  <1>5. \A h \in Goroutine \ met, k \in Goroutine : Busy(h) /\ Busy(k) => h = k
    BY DEF LoneHyp, LoneInv
  <1>6. \A h \in Goroutine \ met', k \in Goroutine : Busy(h)' /\ Busy(k)' => h = k
    BY <1>4
  <1>7. agreed' => met' = {}
    BY DEF LoneHyp, Recorded
  <1>8. agreed' => faults' = faults /\ (agreed \/ Reassigning(g))
    <2> SUFFICES ASSUME agreed' PROVE faults' = faults /\ (agreed \/ Reassigning(g))
      OBVIOUS
    <2>1. faults' = faults /\ (agreed \/ \E k \in Goroutine : Reassigning(k) /\ task'[k] # task[k])
      BY DEF LoneHyp, Recorded
    <2> QED BY <1>2, <2>1
  <1>9. ASSUME NEW h \in Goroutine, h \notin met', Busy(h)' PROVE h = g /\ Lone(g)
    <2>1. h \notin met /\ \A k \in Goroutine : Busy(k)' => k = h
      BY <1>4, <1>9
    <2>2. h = g
      BY <1>3, <1>5, <1>9, <2>1
    <2> QED BY <1>3, <2>1, <2>2 DEF Lone
  <1>10. ASSUME agreed' PROVE Lone(g)
    <2>1. CASE t.op # "idle"
      BY <1>3, <1>7, <1>9, <1>10, <2>1
    <2>2. CASE t.op = "idle"
      <3>1. agreed /\ Busy(g)
        BY <1>8, <1>10, <2>2
      <3>2. met = {}
        BY <3>1 DEF LoneHyp, LoneInv
      <3> QED BY <1>5, <3>1, <3>2 DEF Lone
    <2> QED BY <2>1, <2>2
  <1>11. \A h \in Goroutine : Shaped(task'[h])
    BY <1>2 DEF LoneHyp, LoneInv
  <1>12. agreed' /\ Quiet' => Settled'
    <2> SUFFICES ASSUME agreed', Quiet' PROVE Settled'
      OBVIOUS
    <2>1. t.op = "idle"
      BY <1>3 DEF Quiet
    <2> QED BY <1>8, <1>10, <2>1
  <1>13. ASSUME NEW h \in Goroutine \ met', Busy(h)'
         PROVE  ReadsTruly(h)' /\ (agreed' => Course(h)')
    <2>1. h = g /\ Lone(g)
      BY <1>9, <1>13
    <2>2. t.op # "idle"
      BY <1>3, <1>13, <2>1
    <2> QED BY <1>8, <2>1, <2>2
  <1> QED BY <1>6, <1>7, <1>11, <1>12, <1>13 DEF LoneInv

\* What is known of a goroutine that met nobody.
LEMMA LoneNow ==
  ASSUME LoneHyp, NEW g \in Goroutine
  PROVE  /\ Shaped(task[g]) /\ task[g] \in Task /\ task \in [Goroutine -> Task]
         /\ task[g].jobs # <<>> => Busy(g) /\ task[g].op \notin {"idle", "edit", "undo"}
         /\ Lone(g) /\ Busy(g) => ReadsTruly(g)
         /\ Lone(g) /\ agreed /\ task[g].op \notin {"idle", "edit", "undo"} => InStep(g)
         /\ Lone(g) /\ agreed /\ task[g].op \in {"edit", "undo"} => Undoable(g)
         /\ Lone(g) /\ agreed /\ ~Busy(g) => Settled
         /\ task[g].jobs = <<>> => ~Reassigning(g)
  <1>1. Shaped(task[g]) /\ task[g] \in Task /\ task \in [Goroutine -> Task]
    BY DEF LoneHyp, LoneInv, IInv, StateOK
  <1>2. task[g].jobs # <<>> => Busy(g) /\ task[g].op \notin {"idle", "edit", "undo"}
    BY <1>1 DEF Shaped, Busy
  <1>3. ASSUME Lone(g), Busy(g) PROVE ReadsTruly(g) /\ (agreed => Course(g))
    BY <1>3 DEF LoneHyp, LoneInv, Lone
  <1>4. Lone(g) /\ agreed /\ task[g].op \notin {"idle", "edit", "undo"} => InStep(g)
    BY <1>3 DEF Busy, Course
  <1>5. Lone(g) /\ agreed /\ task[g].op \in {"edit", "undo"} => Undoable(g)
    BY <1>3 DEF Busy, Course
  <1>6. ASSUME Lone(g), agreed, ~Busy(g) PROVE Settled
    <2>1. Quiet
      BY <1>6 DEF Quiet, Lone
    <2> QED BY <1>6, <2>1 DEF LoneHyp, LoneInv
  <1>7. task[g].jobs = <<>> => ~Reassigning(g)
    BY DEF Reassigning, HasJob
  <1> QED BY <1>1, <1>2, <1>3, <1>4, <1>5, <1>6, <1>7

LEMMA LastIsReload ==
  ASSUME NEW front \in Seq(Job)
  PROVE  front \o <<ReloadJob>> # <<>> /\ EndsInReload(front \o <<ReloadJob>>)
  <1>1. ReloadJob \in Job /\ ReloadJob.key = "reload"
    BY DEF ReloadJob, Job
  <1> DEFINE all == front \o <<ReloadJob>>
             n == Len(front)
  <1>2. Len(all) = n + 1 /\ n \in Nat /\ all[n + 1] = ReloadJob
    BY <1>1
  <1>3. Len(<<>>) = 0
    OBVIOUS
  <1> HIDE DEF all, n
  <1>4. all # <<>>
    BY <1>2, <1>3
  <1>5. all[Len(all)] = ReloadJob
    BY <1>2
  <1> HIDE DEF ReloadJob
  <1>6. EndsInReload(all)
    BY <1>1, <1>5 DEF EndsInReload
  <1> QED BY <1>4, <1>6 DEF all

\* What is left after the first job ends with the same reload.
LEMMA TailOfJobs ==
  ASSUME NEW jobs \in Seq(Job), jobs # <<>>, EndsInReload(jobs)
  PROVE  /\ Tail(jobs) \in Seq(Job) /\ EndsInReload(Tail(jobs))
         /\ jobs[1].key # "reload" => Tail(jobs) # <<>>
  <1> DEFINE rest == Tail(jobs)
             n == Len(jobs)
  <1>1. /\ rest \in Seq(Job) /\ Len(rest) = n - 1
        /\ \A k \in 1..Len(rest) : rest[k] = jobs[k + 1]
    BY HeadTailProperties
  <1>2. n \in Nat /\ n # 0
    BY EmptySeq, LenProperties
  <1>3. Len(<<>>) = 0
    OBVIOUS
  <1>4. rest # <<>> => Len(rest) # 0
    BY <1>1, EmptySeq
  <1>5. jobs[n].key = "reload"
    BY DEF EndsInReload
  <1> HIDE DEF rest, n
  <1>6. rest # <<>> => rest[Len(rest)].key = "reload"
    <2> SUFFICES ASSUME rest # <<>> PROVE rest[Len(rest)].key = "reload"
      OBVIOUS
    <2>1. Len(rest) \in 1..Len(rest) /\ Len(rest) + 1 = n
      BY <1>1, <1>2, <1>4
    <2> QED BY <1>1, <1>5, <2>1
  <1>7. jobs[1].key # "reload" => rest # <<>>
    <2> SUFFICES ASSUME rest = <<>> PROVE jobs[1].key = "reload"
      OBVIOUS
    <2>1. n = 1
      BY <1>1, <1>2, <1>3
    <2> QED BY <1>5, <2>1
  <1> QED BY <1>1, <1>6, <1>7 DEF rest, EndsInReload

\* And so does what is left when it failed.
LEMMA FailedShaped ==
  ASSUME NEW t \in Task, SkipsOneJob(t), t.jobs # <<>>, Shaped(t)
  PROVE  Shaped(Failed(t)) /\ Failed(t).stage = "read"
  <1> DEFINE left == Tail(t.jobs)
             jobs == CASE t.jobs[1].fail = "stop" -> <<>>
                       [] t.jobs[1].fail = "skip" -> Tail(left)
                       [] OTHER -> left
  <1>1. left \in Seq(Job) /\ EndsInReload(left)
    BY TailOfJobs DEF Task, Shaped
  <1>2. t.jobs[1].fail = "skip" => left # <<>>
    BY TailKeeps
  <1>3. /\ Failed(t).stage = "read" /\ Failed(t).jobs = jobs
        /\ Failed(t).op = IF t.jobs[1].fail = "stop" THEN "idle" ELSE t.op
    BY DEF Failed, Task
  <1>4. EndsInReload(<<>>)
    BY DEF EndsInReload
  <1> HIDE DEF left
  <1>5. EndsInReload(jobs)
    <2>1. CASE t.jobs[1].fail = "stop"
      BY <1>4, <2>1
    <2>2. CASE t.jobs[1].fail = "skip"
      BY <1>1, <1>2, <2>2, TailOfJobs
    <2>3. CASE t.jobs[1].fail # "stop" /\ t.jobs[1].fail # "skip"
      BY <1>1, <2>3
    <2> QED BY <2>1, <2>2, <2>3
  <1>6. Failed(t).op \in {"idle", "edit", "undo"} => Failed(t).jobs = <<>>
    <2>1. t.op \notin {"idle", "edit", "undo"}
      BY DEF Shaped
    <2> QED BY <1>3, <2>1
  <1> HIDE DEF jobs
  <1> QED BY <1>3, <1>5, <1>6 DEF Shaped

LEMMA JobFacts ==
  ASSUME LoneHyp, NEW g \in Goroutine, task[g].jobs # <<>>
  PROVE  /\ task[g].jobs \in Seq(Job) /\ task[g].jobs[1] = Job1(g)
         /\ TaskOK(task[g]) /\ disk \in Lists /\ Normalized(disk) \in Lists
         /\ Done(task[g]) \in Task /\ Done(task[g]).op = task[g].op
         /\ Done(task[g]).stage = "read" /\ Done(task[g]).jobs = Tail(task[g].jobs)
         /\ Shaped(Done(task[g]))
         /\ Job1(g).key # "reload" => Done(task[g]).jobs # <<>>
         /\ Failed(task[g]) \in Task /\ Shaped(Failed(task[g])) /\ Failed(task[g]).stage = "read"
  <1>1. TaskOK(task[g]) /\ disk \in Lists /\ Normalized(disk) \in Lists
    BY Facts DEF LoneHyp
  <1>2. Shaped(task[g])
    BY LoneNow
  <1>3. task[g].jobs \in Seq(Job)
    BY <1>1 DEF TaskOK, Task
  <1>4. task[g].jobs[1] = Job1(g)
    BY <1>3 DEF Job1
  <1>5. Done(task[g]) \in Task
    BY <1>1, DoneType DEF TaskOK
  <1>6. /\ Done(task[g]).op = task[g].op /\ Done(task[g]).jobs = Tail(task[g].jobs)
        /\ Done(task[g]).stage = "read"
    BY <1>1 DEF Done, TaskOK, Task
  <1>7. /\ EndsInReload(Tail(task[g].jobs))
        /\ Job1(g).key # "reload" => Tail(task[g].jobs) # <<>>
    BY <1>2, <1>3, <1>4, TailOfJobs DEF Shaped
  <1>8. Shaped(Done(task[g]))
    BY <1>2, <1>6, <1>7 DEF Shaped
  <1>9. Failed(task[g]) \in Task /\ Shaped(Failed(task[g])) /\ Failed(task[g]).stage = "read"
    BY <1>1, <1>2, FailedType, FailedShaped DEF TaskOK
  <1> QED BY <1>1, <1>3, <1>4, <1>5, <1>6, <1>7, <1>8, <1>9

\* A Set or a reload fails: file and lists in use are in step no more, or were not.
LEMMA FailLone ==
  ASSUME LoneHyp, NEW g \in Goroutine, task[g].jobs # <<>>, ~Reassigning(g),
         task' = [task EXCEPT ![g] = Failed(@)],
         Lone(g) /\ agreed => faults' # faults
  PROVE  LoneInv'
  <1>1. /\ Failed(task[g]) \in Task /\ Shaped(Failed(task[g]))
        /\ Failed(task[g]).stage = "read"
    BY JobFacts
  <1>2. Busy(g) /\ task \in [Goroutine -> Task]
    BY LoneNow
  <1>3. task'[g] = Failed(task[g])
    BY <1>2
  <1>4. ReadsTruly(g)'
    BY <1>1, <1>3 DEF ReadsTruly, Reassigning
  <1> QED BY <1>1, <1>2, <1>4, LoneStep

LEMMA SetsLone == ASSUME LoneHyp, NEW g \in Goroutine, Sets(g) PROVE LoneInv'
  <1>1. task[g].jobs # <<>> /\ Job1(g).key # "reload" /\ ~Reassigning(g)
    BY DEF Sets, SetReads, SetFails, SetTruncates, SetWrites, HasSet, Reassigning, HasJob
  <1>2. /\ Shaped(task[g]) /\ task[g] \in Task /\ task \in [Goroutine -> Task] /\ Busy(g)
        /\ task[g].op \notin {"idle", "edit", "undo"}
        /\ Lone(g) /\ agreed => InStep(g)
    BY <1>1, LoneNow
  <1>3. /\ TaskOK(task[g]) /\ disk \in Lists /\ Normalized(disk) \in Lists
        /\ Done(task[g]) \in Task /\ Done(task[g]).op = task[g].op
        /\ Done(task[g]).stage = "read" /\ Shaped(Done(task[g])) /\ Done(task[g]).jobs # <<>>
    BY <1>1, JobFacts
  <1>4. CASE SetReads(g)
    <2> DEFINE t == [task[g] EXCEPT !.got = Normalized(disk), !.stage = "truncate"]
    <2>1. t \in Task /\ t.op = task[g].op /\ t.jobs = task[g].jobs /\ t.stage = "truncate"
      BY <1>2, <1>3 DEF Task
    <2>2. CASE torn
      <3>1. task' = [task EXCEPT ![g] = Failed(@)]
        BY <1>4, <2>2 DEF SetReads
      <3>2. ~(Lone(g) /\ agreed)
        BY <1>1, <1>2, <1>4, <2>2 DEF SetReads, HasSet, InStep
      <3> QED BY <1>1, <3>1, <3>2, FailLone
    <2>3. CASE ~torn
      <3>1. task' = [task EXCEPT ![g] = t] /\ UNCHANGED <<disk, torn, cfg, pool, faults>>
        BY <1>4, <2>3 DEF SetReads
      <3> HIDE DEF t
      <3>2. task'[g] = t
        BY <1>2, <3>1
      <3>3. Shaped(t)
        BY <1>1, <1>2, <2>1 DEF Shaped
      <3>4. ReadsTruly(g)' /\ Course(g)'
        BY <1>1, <1>2, <2>1, <2>3, <3>1, <3>2
           DEF ReadsTruly, Reassigning, HasJob, Job1, Course, InStep
      <3> QED BY <1>1, <1>2, <2>1, <3>1, <3>3, <3>4, LoneStep
    <2> QED BY <2>2, <2>3
  <1>5. CASE SetFails(g)
    <2>1. task' = [task EXCEPT ![g] = Failed(@)] /\ faults' = faults + 1 /\ faults \in Nat
      BY <1>5, FaultsAssumption DEF SetFails, LoneHyp, IInv, StateOK
    <2>2. faults' # faults
      BY <2>1
    <2> QED BY <1>1, <2>1, <2>2, FailLone
  <1>6. CASE SetTruncates(g)
    <2> DEFINE t == [task[g] EXCEPT !.stage = "write"]
    <2>1. t \in Task /\ t.op = task[g].op /\ t.jobs = task[g].jobs /\ t.stage = "write"
      BY <1>2 DEF Task
    <2>2. /\ task' = [task EXCEPT ![g] = t] /\ torn' = TRUE
      BY <1>2, <1>6 DEF SetTruncates
    <2> HIDE DEF t
    <2>3. task'[g] = t
      BY <1>2, <2>2
    <2>4. Shaped(t)
      BY <1>1, <1>2, <2>1 DEF Shaped
    <2>5. ReadsTruly(g)' /\ Course(g)'
      BY <1>1, <1>2, <2>1, <2>2, <2>3
         DEF ReadsTruly, Reassigning, HasJob, Job1, Course, InStep
    <2> QED BY <1>1, <1>2, <2>1, <2>2, <2>4, <2>5, LoneStep
  <1>7. CASE SetWrites(g)
    <2> DEFINE t == Done(task[g])
    <2>1. /\ task' = [task EXCEPT ![g] = t] /\ torn' = FALSE
      BY <1>7 DEF SetWrites
    <2>2. task'[g] = t
      BY <1>2, <2>1
    <2>3. t \in Task /\ t.op = task[g].op /\ t.stage = "read" /\ Shaped(t) /\ t.jobs # <<>>
      BY <1>3
    <2> HIDE DEF t
    <2>4. ReadsTruly(g)' /\ Course(g)'
      BY <1>2, <2>1, <2>2, <2>3 DEF ReadsTruly, Reassigning, Course, InStep
    <2> QED BY <1>1, <1>2, <2>1, <2>3, <2>4, LoneStep
  <1> QED BY <1>4, <1>5, <1>6, <1>7 DEF Sets

LEMMA ReloadsLone == ASSUME LoneHyp, NEW g \in Goroutine, Reloads(g) PROVE LoneInv'
  <1>1. task[g].jobs # <<>> /\ Job1(g).key = "reload"
    BY DEF Reloads, ReloadReads, ReloadAssigns, HasJob
  <1>2. /\ Shaped(task[g]) /\ task[g] \in Task /\ task \in [Goroutine -> Task] /\ Busy(g)
        /\ task[g].op \notin {"idle", "edit", "undo"}
        /\ Lone(g) /\ agreed => InStep(g)
        /\ Lone(g) => ReadsTruly(g)
    BY <1>1, LoneNow
  <1>3. /\ disk \in Lists /\ Normalized(disk) \in Lists
        /\ Done(task[g]) \in Task /\ Done(task[g]).op = task[g].op
        /\ Done(task[g]).stage = "read" /\ Shaped(Done(task[g]))
    BY <1>1, JobFacts
  <1>4. CASE ReloadReads(g)
    <2> DEFINE t == [task[g] EXCEPT !.got = Normalized(disk), !.stage = "write"]
    <2>1. /\ t \in Task /\ t.op = task[g].op /\ t.jobs = task[g].jobs /\ t.stage = "write"
          /\ t.got = Normalized(disk)
      BY <1>2, <1>3 DEF Task
    <2>2. task[g].stage = "read" /\ ~Reassigning(g)
      BY <1>4 DEF ReloadReads, Reassigning
    <2>3. CASE torn
      <3>1. task' = [task EXCEPT ![g] = Failed(@)]
        BY <1>4, <2>3 DEF ReloadReads
      <3>2. ~(Lone(g) /\ agreed)
        BY <1>1, <1>2, <2>2, <2>3 DEF InStep
      <3> QED BY <1>1, <2>2, <3>1, <3>2, FailLone
    <2>4. CASE ~torn
      <3>1. task' = [task EXCEPT ![g] = t] /\ UNCHANGED <<disk, torn, cfg, pool, faults>>
        BY <1>4, <2>4 DEF ReloadReads
      <3> HIDE DEF t
      <3>2. task'[g] = t
        BY <1>2, <3>1
      <3>3. Shaped(t)
        BY <1>1, <1>2, <2>1 DEF Shaped
      <3>4. ReadsTruly(g)' /\ Course(g)'
        BY <1>1, <1>2, <2>1, <2>4, <3>1, <3>2
           DEF ReadsTruly, Job1, Course, InStep
      <3> QED BY <1>1, <1>2, <2>1, <2>2, <3>1, <3>3, <3>4, LoneStep
    <2> QED BY <2>3, <2>4
  <1>5. CASE ReloadAssigns(g)
    <2> DEFINE t == Done(task[g])
    <2>1. /\ task' = [task EXCEPT ![g] = t] /\ cfg' = task[g].got
          /\ UNCHANGED <<disk, torn, pool, faults>>
      BY <1>5 DEF ReloadAssigns
    <2>2. task'[g] = t
      BY <1>2, <2>1
    <2>3. t \in Task /\ t.op = task[g].op /\ t.stage = "read" /\ Shaped(t)
      BY <1>3
    <2> HIDE DEF t
    <2>4. Reassigning(g)
      BY <1>5 DEF ReloadAssigns, Reassigning
    <2>5. Lone(g) => Settled'
      BY <1>2, <2>1, <2>4 DEF ReadsTruly, Settled
    <2>6. Lone(g) => Course(g)'
      BY <1>2, <2>2, <2>3, <2>5 DEF Course, InStep, Settled
    <2>7. ReadsTruly(g)'
      BY <2>2, <2>3 DEF ReadsTruly, Reassigning
    <2> QED BY <1>2, <2>1, <2>3, <2>6, <2>7, LoneStep
  <1> QED BY <1>4, <1>5 DEF Reloads

LEMMA OneWriteEnds ==
  ASSUME NEW key, NEW value, NEW fail
  PROVE  EndsInReload(<<SetJob(key, value, fail), ReloadJob>>)
  <1>1. ReloadJob.key = "reload"
    BY DEF ReloadJob
  <1> HIDE DEF SetJob, ReloadJob
  <1> QED BY <1>1 DEF EndsInReload

LEMMA RestoreEnds ==
  ASSUME NEW a, NEW b, NEW c
  PROVE  EndsInReload(<<SetJob("black", a, "stop"), SetJob("exempt", b, "go"),
                        SetJob("force", c, "go"), ReloadJob>>)
  <1>1. ReloadJob.key = "reload"
    BY DEF ReloadJob
  <1> HIDE DEF SetJob, ReloadJob
  <1> QED BY <1>1 DEF EndsInReload

LEMMA BothEnd ==
  ASSUME NEW one \in Seq(Job), NEW two \in Seq(Job), EndsInReload(one), EndsInReload(two)
  PROVE  EndsInReload(one \o two)
  <1>1. /\ Len(one) \in Nat /\ Len(two) \in Nat
        /\ Len(one \o two) = Len(one) + Len(two)
        /\ \A k \in 1..Len(one) : (one \o two)[k] = one[k]
        /\ \A k \in Len(one) + 1 .. Len(one) + Len(two) : (one \o two)[k] = two[k - Len(one)]
    BY ConcatProperties, LenProperties
  <1>2. CASE two = <<>>
    BY <1>2 DEF EndsInReload
  <1>3. CASE two # <<>>
    <2>1. Len(two) # 0
      BY <1>3, EmptySeq
    <2>2. /\ Len(one \o two) \in Len(one) + 1 .. Len(one) + Len(two)
          /\ Len(one \o two) - Len(one) = Len(two)
      BY <1>1, <2>1
    <2>3. (one \o two)[Len(one \o two)] = two[Len(two)]
      BY <1>1, <2>2
    <2> QED BY <1>3, <2>3 DEF EndsInReload
  <1> QED BY <1>2, <1>3

LEMMA WritesEnd ==
  ASSUME NEW lists \in Lists, NEW order \in [1..3 -> Key]
  PROVE  Writes(lists, order) # <<>> /\ EndsInReload(Writes(lists, order))
  <1> DEFINE front == [k \in 1..3 |-> SetJob(order[k], lists[order[k]], "stop")]
  <1>1. \A k \in 1..3 : SetJob(order[k], lists[order[k]], "stop") \in Job
    BY JobType DEF Lists
  <1>2. front \in Seq(Job)
    BY <1>1
  <1> HIDE DEF front
  <1>3. Writes(lists, order) = front \o <<ReloadJob>>
    BY DEF Writes, front
  <1> QED BY <1>2, <1>3, LastIsReload

\* A test or a request starts, goes on or decides: it leaves the file alone, and the
\* lists in use as well where it has nothing to write.
LEMMA DecideLone ==
  ASSUME LoneHyp, NEW g \in Goroutine, NEW t \in Task, task' = [task EXCEPT ![g] = t],
         task[g].jobs = <<>>, t.op \notin {"idle", "edit", "undo"}, t.stage = "read",
         EndsInReload(t.jobs), UNCHANGED <<disk, torn>>,
         t.jobs = <<>> => cfg' = cfg,
         task[g].op \in {"edit", "undo"} => ~torn /\ t.jobs # <<>>
  PROVE  LoneInv'
  <1>1. task'[g] = t /\ ~Reassigning(g)
    BY LoneNow
  <1>2. Shaped(t)
    BY DEF Shaped
  <1>3. ReadsTruly(g)'
    BY <1>1 DEF ReadsTruly, Reassigning
  <1>4. ASSUME Lone(g), agreed PROVE Course(g)'
    <2>1. CASE task[g].op \in {"edit", "undo"}
      BY <1>1, <2>1 DEF Course, InStep
    <2>2. CASE task[g].op \notin {"edit", "undo"}
      <3>1. Settled
        BY <1>4, <2>2, LoneNow DEF Busy, InStep
      <3> QED BY <1>1, <3>1 DEF Course, InStep, Settled
    <2> QED BY <2>1, <2>2
  <1> QED BY <1>1, <1>2, <1>3, <1>4, LoneStep

\* A test or a request ends, with nothing left to write.
LEMMA EndLone ==
  ASSUME LoneHyp, NEW g \in Goroutine, task[g].jobs = <<>>, task' = [task EXCEPT ![g] = Idle],
         Busy(g), Lone(g) /\ agreed /\ faults' = faults => Settled'
  PROVE  LoneInv'
  <1>1. Idle \in Task /\ Idle.op = "idle" /\ Idle.jobs = <<>> /\ Idle.stage = "read"
    BY IdleType DEF Idle
  <1>2. task'[g] = Idle /\ ~Reassigning(g)
    BY LoneNow
  <1>3. Shaped(Idle)
    BY <1>1 DEF Shaped, EndsInReload
  <1>4. ReadsTruly(g)'
    BY <1>1, <1>2 DEF ReadsTruly, Reassigning
  <1> QED BY <1>1, <1>2, <1>3, <1>4, LoneStep

LEMMA InStepEnds ==
  ASSUME LoneHyp, NEW g \in Goroutine, task[g].jobs = <<>>, task' = [task EXCEPT ![g] = Idle],
         task[g].op \notin {"idle", "edit", "undo"}, UNCHANGED <<disk, torn, cfg>>
  PROVE  LoneInv'
  <1>1. Lone(g) /\ agreed => Settled'
    BY LoneNow DEF InStep, Settled
  <1>2. Busy(g)
    BY DEF Busy
  <1> QED BY <1>1, <1>2, EndLone

LEMMA TestFacts ==
  ASSUME LoneHyp, NEW g \in Goroutine
  PROVE  task[g] \in Task /\ task \in [Goroutine -> Task] /\ cfg \in Lists /\ disk \in Lists
  BY Facts DEF LoneHyp, TaskOK

LEMMA StartRoundLone ==
  ASSUME LoneHyp, NEW g \in Goroutine, NEW p \in SUBSET IP, StartRound(g, p)
  PROVE  LoneInv'
  <1> DEFINE tested == {i \in p : ~Matches(i, cfg["exempt"]) \/ Matches(i, cfg["force"])}
             t == [Idle EXCEPT !.op = "round", !.ips = tested,
                               !.forced = {i \in tested : Matches(i, cfg["force"])}]
  <1>1. /\ task' = [task EXCEPT ![g] = t] /\ MayStart(g) /\ UNCHANGED <<disk, torn, cfg>>
    BY DEF StartRound, Start
  <1>2. t \in Task
    <2>1. task'[g] \in Task
      BY StartRoundKeeps DEF LoneHyp, IInv, StateOK
    <2> QED BY <1>1, <2>1, TestFacts
  <1>3. t.op = "round" /\ t.stage = "read" /\ t.jobs = <<>>
    BY DEF Idle
  <1> HIDE DEF t
  <1>4. task[g].op = "idle" /\ task[g].jobs = <<>>
    BY <1>1, LoneNow DEF MayStart, Busy, Shaped
  <1>5. EndsInReload(t.jobs)
    BY <1>3 DEF EndsInReload
  <1> QED BY <1>1, <1>2, <1>3, <1>4, <1>5, DecideLone

LEMMA RoundGoesOnLone ==
  ASSUME LoneHyp, NEW g \in Goroutine,
         RoundInterrupted(g) \/ \E i \in IP : TestPasses(g, i)
  PROVE  LoneInv'
  <1> DEFINE t == task'[g]
  <1>1. /\ task[g].op = "round" /\ task[g].jobs = <<>> /\ UNCHANGED <<disk, torn, cfg>>
    BY DEF RoundInterrupted, TestPasses, Testing
  <1>2. t \in Task
    <2>1. IInv'
      BY RoundInterruptedKeeps, TestPassesKeeps DEF LoneHyp
    <2> QED BY <2>1 DEF IInv, StateOK
  <1>3. task' = [task EXCEPT ![g] = t]
    BY TestFacts DEF RoundInterrupted, TestPasses
  <1>4. t.op = task[g].op /\ t.jobs = task[g].jobs /\ t.stage = task[g].stage
    <2>1. CASE RoundInterrupted(g)
      BY <2>1, TestFacts DEF RoundInterrupted, Task
    <2>2. CASE \E i \in IP : TestPasses(g, i)
      <3>1. PICK i \in IP : TestPasses(g, i)
        BY <2>2
      <3> DEFINE passed == IF i \in task[g].forced THEN task[g].passed
                           ELSE task[g].passed \cup {i}
                 u == [task[g] EXCEPT !.ips = @ \ {i}, !.passed = passed]
      <3>2. task' = [task EXCEPT ![g] = u]
        BY <3>1, TestFacts DEF TestPasses
      <3> HIDE DEF passed
      <3>3. u.op = task[g].op /\ u.jobs = task[g].jobs /\ u.stage = task[g].stage
        BY TestFacts DEF Task
      <3> HIDE DEF u
      <3> QED BY <3>2, <3>3, TestFacts
    <2> QED BY <2>1, <2>2
  <1>5. task[g].stage = "read"
    BY <1>1, LoneNow DEF Shaped
  <1> HIDE DEF t
  <1>6. EndsInReload(t.jobs)
    BY <1>1, <1>4 DEF EndsInReload
  <1> QED BY <1>1, <1>2, <1>3, <1>4, <1>5, <1>6, DecideLone

LEMMA TestFailsLone ==
  ASSUME LoneHyp, NEW g \in Goroutine, NEW i \in IP, TestFails(g, i)
  PROVE  LoneInv'
  <1> DEFINE isForced == i \in pool /\ i \in task[g].forced
             barred == i \in pool /\ (AutoBlacklist \/ i \in task[g].forced)
             black == IF barred THEN cfg["black"] \cup {{i}} ELSE cfg["black"]
             force == IF isForced THEN cfg["force"] \ {{i}} ELSE cfg["force"]
             one == IF black = cfg["black"] THEN <<>>
                    ELSE <<SetJob("black", black, "skip"), ReloadJob>>
             two == IF force = cfg["force"] THEN <<>>
                    ELSE <<SetJob("force", force, "skip"), ReloadJob>>
             want == Decided(cfg', IF barred THEN {i} ELSE {})
             t == [task[g] EXCEPT !.ips = @ \ {i}, !.want = want, !.jobs = one \o two]
  <1>1. /\ task[g].op = "round" /\ task[g].jobs = <<>>
        /\ cfg' = [cfg EXCEPT !["black"] = black, !["force"] = force]
        /\ UNCHANGED <<disk, torn>>
    BY DEF TestFails, Testing
  <1>2. task[g] \in Task /\ task \in [Goroutine -> Task] /\ cfg \in Lists
    BY TestFacts
  <1>3. task' = [task EXCEPT ![g] = t]
    <2>1. task' = [task EXCEPT ![g].ips = @ \ {i}, ![g].want = want, ![g].jobs = one \o two]
      BY DEF TestFails
    <2> HIDE DEF one, two, want
    <2> QED BY <1>2, <2>1
  <1>4. t \in Task
    <2>1. task'[g] \in Task
      BY TestFailsKeeps DEF LoneHyp, IInv, StateOK
    <2> HIDE DEF t
    <2> QED BY <1>2, <1>3, <2>1
  <1>5. black \in SUBSET Entry /\ force \in SUBSET Entry
    BY <1>2 DEF Lists, Key, Entry, Single
  <1>6. one \in Seq(Job) /\ two \in Seq(Job) /\ EndsInReload(one) /\ EndsInReload(two)
    <2> HIDE DEF black, force
    <2>1. "black" \in Key /\ "force" \in Key /\ "skip" \in {"stop", "skip", "go"}
      BY DEF Key
    <2>2. one \in Seq(Job) /\ two \in Seq(Job)
      BY <1>5, <2>1, OneJobThenReload, NoJobs
    <2>3. EndsInReload(<<>>)
      BY DEF EndsInReload
    <2> QED BY <2>2, <2>3, OneWriteEnds
  <1>7. EndsInReload(one \o two)
    <2> HIDE DEF one, two, black
    <2> QED BY <1>6, BothEnd
  <1>8. one \o two = <<>> => black = cfg["black"] /\ force = cfg["force"]
    <2>1. one # <<>> => Len(one) = 2
      OBVIOUS
    <2>2. two # <<>> => Len(two) = 2
      OBVIOUS
    <2>3. Len(one) \in Nat /\ Len(two) \in Nat /\ Len(one \o two) = Len(one) + Len(two)
      <3> HIDE DEF one, two
      <3> QED BY <1>6, ConcatProperties, LenProperties
    <2>4. ASSUME one \o two = <<>> PROVE one = <<>> /\ two = <<>>
      <3> HIDE DEF one, two
      <3>1. Len(one \o two) = 0
        BY <2>4
      <3> QED BY <2>1, <2>2, <2>3, <3>1
    <2>5. one = <<>> => black = cfg["black"]
      OBVIOUS
    <2>6. two = <<>> => force = cfg["force"]
      OBVIOUS
    <2> QED BY <2>4, <2>5, <2>6
  <1>9. black = cfg["black"] /\ force = cfg["force"] => cfg' = cfg
    <2> HIDE DEF black, force
    <2> QED BY <1>1, <1>2 DEF Lists
  <1>10. t.op = "round" /\ t.stage = task[g].stage /\ t.jobs = one \o two
    <2> HIDE DEF one, two, want
    <2> QED BY <1>1, <1>2 DEF Task
  <1>11. task[g].stage = "read"
    BY <1>1, LoneNow DEF Shaped
  <1> HIDE DEF one, two, black, force, want, t
  <1> QED BY <1>1, <1>3, <1>4, <1>7, <1>8, <1>9, <1>10, <1>11, DecideLone

LEMMA RoundEndsLone ==
  ASSUME LoneHyp, NEW g \in Goroutine, RoundEnds(g)
  PROVE  LoneInv'
  <1> DEFINE added == {{i} : i \in {j \in task[g].passed : ~Matches(j, cfg["exempt"])}}
             exempt == cfg["exempt"] \cup added
             want == Decided(cfg', UNION added)
             jobs == <<SetJob("exempt", exempt, "stop"), ReloadJob>>
             t == [task[g] EXCEPT !.passed = {}, !.want = want, !.jobs = jobs]
  <1>1. task[g].op = "round" /\ task[g].jobs = <<>> /\ UNCHANGED <<disk, torn>>
    BY DEF RoundEnds, Testing
  <1>2. task[g] \in Task /\ task \in [Goroutine -> Task] /\ task[g].stage = "read"
    BY <1>1, LoneNow DEF Shaped
  <1>3. CASE added = {}
    <2>1. task' = [task EXCEPT ![g] = Idle] /\ cfg' = cfg
      BY <1>3 DEF RoundEnds
    <2> QED BY <1>1, <2>1, InStepEnds
  <1>4. CASE added # {}
    <2>1. task' = [task EXCEPT ![g].passed = {}, ![g].want = want, ![g].jobs = jobs]
      BY <1>4 DEF RoundEnds
    <2>2. EndsInReload(jobs) /\ jobs # <<>>
      <3>1. jobs # <<>>
        OBVIOUS
      <3> HIDE DEF exempt
      <3> QED BY <3>1, OneWriteEnds
    <2> HIDE DEF exempt, want, jobs
    <2>3. task' = [task EXCEPT ![g] = t]
      BY <1>2, <2>1
    <2>4. t \in Task
      <3>1. task'[g] \in Task
        BY RoundEndsKeeps DEF LoneHyp, IInv, StateOK
      <3> QED BY <1>2, <2>3, <3>1
    <2>5. t.op = "round" /\ t.stage = "read" /\ t.jobs = jobs
      BY <1>1, <1>2 DEF Task
    <2> HIDE DEF t
    <2> QED BY <1>1, <2>2, <2>3, <2>4, <2>5, DecideLone
  <1> QED BY <1>3, <1>4

LEMMA StartRestoreLone ==
  ASSUME LoneHyp, NEW g \in Goroutine, StartRestore(g)
  PROVE  LoneInv'
  <1> DEFINE t == [Idle EXCEPT !.op = "restore", !.ips = {i \in IP : {i} \in cfg["black"]}]
  <1>1. task' = [task EXCEPT ![g] = t] /\ MayStart(g) /\ UNCHANGED <<disk, torn, cfg>>
    BY DEF StartRestore, Start
  <1>2. t \in Task
    <2>1. task'[g] \in Task
      BY StartRestoreKeeps DEF LoneHyp, IInv, StateOK
    <2> QED BY <1>1, <2>1, TestFacts
  <1>3. t.op = "restore" /\ t.stage = "read" /\ t.jobs = <<>>
    BY DEF Idle
  <1> HIDE DEF t
  <1>4. task[g].op = "idle" /\ task[g].jobs = <<>>
    BY <1>1, LoneNow DEF MayStart, Busy, Shaped
  <1>5. EndsInReload(t.jobs)
    BY <1>3 DEF EndsInReload
  <1> QED BY <1>1, <1>2, <1>3, <1>4, <1>5, DecideLone

LEMMA RestoresLone ==
  ASSUME LoneHyp, NEW g \in Goroutine, NEW fast \in SUBSET IP, Restores(g, fast)
  PROVE  LoneInv'
  <1> DEFINE back == {{i} : i \in fast}
             black == cfg["black"] \ back
             exempt == cfg["exempt"] \ back
             force == cfg["force"] \cup {{i} : i \in {j \in fast : ~Matches(j, cfg["force"])}}
             want == Decided(cfg', fast)
             jobs == <<SetJob("black", black, "stop"), SetJob("exempt", exempt, "go"),
                       SetJob("force", force, "go"), ReloadJob>>
             t == [task[g] EXCEPT !.ips = {}, !.want = want, !.jobs = jobs]
  <1>1. task[g].op = "restore" /\ task[g].jobs = <<>> /\ UNCHANGED <<disk, torn>>
    BY DEF Restores
  <1>2. task[g] \in Task /\ task \in [Goroutine -> Task] /\ task[g].stage = "read"
    BY <1>1, LoneNow DEF Shaped
  <1>3. CASE fast = {}
    <2>1. task' = [task EXCEPT ![g] = Idle] /\ cfg' = cfg
      BY <1>3 DEF Restores
    <2> QED BY <1>1, <2>1, InStepEnds
  <1>4. CASE fast # {}
    <2>1. task' = [task EXCEPT ![g].ips = {}, ![g].want = want, ![g].jobs = jobs]
      BY <1>4 DEF Restores
    <2>2. EndsInReload(jobs) /\ jobs # <<>>
      <3>1. jobs # <<>>
        OBVIOUS
      <3> HIDE DEF black, exempt, force
      <3> QED BY <3>1, RestoreEnds
    <2> HIDE DEF black, exempt, force, want, jobs
    <2>3. task' = [task EXCEPT ![g] = t]
      BY <1>2, <2>1
    <2>4. t \in Task
      <3>1. task'[g] \in Task
        BY RestoresKeeps DEF LoneHyp, IInv, StateOK
      <3> QED BY <1>2, <2>3, <3>1
    <2>5. t.op = "restore" /\ t.stage = "read" /\ t.jobs = jobs
      BY <1>1, <1>2 DEF Task
    <2> HIDE DEF t
    <2> QED BY <1>1, <2>2, <2>3, <2>4, <2>5, DecideLone
  <1> QED BY <1>3, <1>4

LEMMA EvictLone ==
  ASSUME LoneHyp, NEW g \in Goroutine, NEW out \in SUBSET IP, Evict(g, out)
  PROVE  LoneInv'
  <1> DEFINE exempt == cfg["exempt"] \ {{i} : i \in out}
             jobs == <<SetJob("exempt", exempt, "stop"), ReloadJob>>
             want == Decided(cfg', out)
             t == [Idle EXCEPT !.op = "evict", !.want = want, !.jobs = jobs]
  <1>1. task' = [task EXCEPT ![g] = t] /\ MayStart(g) /\ UNCHANGED <<disk, torn>>
    BY DEF Evict, Start
  <1>2. EndsInReload(jobs) /\ jobs # <<>>
    <2>1. jobs # <<>>
      OBVIOUS
    <2> HIDE DEF exempt
    <2> QED BY <2>1, OneWriteEnds
  <1> HIDE DEF exempt, jobs, want
  <1>3. t \in Task
    <2>1. task'[g] \in Task
      BY EvictKeeps DEF LoneHyp, IInv, StateOK
    <2> QED BY <1>1, <2>1, TestFacts
  <1>4. t.op = "evict" /\ t.stage = "read" /\ t.jobs = jobs
    BY DEF Idle
  <1> HIDE DEF t
  <1>5. task[g].op = "idle" /\ task[g].jobs = <<>>
    BY <1>1, LoneNow DEF MayStart, Busy, Shaped
  <1> QED BY <1>1, <1>2, <1>3, <1>4, <1>5, DecideLone

LEMMA EndsLone ==
  ASSUME LoneHyp, NEW g \in Goroutine, TesterEnds(g) \/ ClearEnds(g) \/ SaveEnds(g)
  PROVE  LoneInv'
  BY InStepEnds DEF TesterEnds, ClearEnds, SaveEnds

LEMMA TestsLone == ASSUME LoneHyp, NEW g \in Goroutine, Tests(g) PROVE LoneInv'
  BY StartRoundLone, RoundGoesOnLone, TestFailsLone, RoundEndsLone, StartRestoreLone,
     RestoresLone, EvictLone, EndsLone DEF Tests, Round

LEMMA RequestsLone == ASSUME LoneHyp, NEW g \in Goroutine, Requests(g) PROVE LoneInv'
  <1>1. task'[g] \in Task
    BY RequestsKeep DEF LoneHyp, IInv, StateOK
  <1>2. /\ task \in [Goroutine -> Task] /\ Normalized(disk) \in Lists /\ cfg \in Lists
    BY Facts DEF LoneHyp
  <1>3. MayStart(g) => task[g].op = "idle" /\ task[g].jobs = <<>>
    BY LoneNow DEF MayStart, Busy, Shaped
  <1>4. ASSUME NEW form \in Lists, NEW order \in Orders, StartSave(g, form, order)
        PROVE  LoneInv'
    <2> DEFINE lists == Exclusive(form, IF torn THEN cfg ELSE Normalized(disk))
               want == Decided(lists, Unambiguous(lists))
               t == [Idle EXCEPT !.op = "save", !.jobs = Writes(lists, order), !.want = want]
    <2>1. lists \in Lists /\ order \in [1..3 -> Key]
      BY <1>2, ExclusiveType DEF Orders
    <2>2. task' = [task EXCEPT ![g] = t] /\ MayStart(g) /\ UNCHANGED <<disk, torn, cfg>>
      BY <1>4 DEF StartSave, Start
    <2> HIDE DEF lists, want
    <2>3. t \in Task
      BY <1>1, <1>2, <2>2
    <2>4. t.op = "save" /\ t.stage = "read" /\ t.jobs = Writes(lists, order)
      BY DEF Idle
    <2>5. EndsInReload(t.jobs)
      BY <2>1, <2>4, WritesEnd
    <2> HIDE DEF t
    <2> QED BY <1>3, <2>2, <2>3, <2>4, <2>5, DecideLone
  <1>5. CASE StartClear(g)
    <2> DEFINE want == Decided(NoLists, IP)
               order == <<"black", "exempt", "force">>
               t == [Idle EXCEPT !.op = "clear", !.want = want, !.jobs = Writes(NoLists, order)]
    <2>1. task' = [task EXCEPT ![g] = t] /\ MayStart(g) /\ UNCHANGED <<disk, torn, cfg>>
      BY <1>5 DEF StartClear, Start
    <2>2. order \in [1..3 -> Key]
      BY ClearOrder
    <2> HIDE DEF want, order
    <2>3. t \in Task
      BY <1>1, <1>2, <2>1
    <2>4. t.op = "clear" /\ t.stage = "read" /\ t.jobs = Writes(NoLists, order)
      BY DEF Idle
    <2>5. EndsInReload(t.jobs)
      BY <2>2, <2>4, WritesEnd, NoListsFact
    <2> HIDE DEF t
    <2> QED BY <1>3, <2>1, <2>3, <2>4, <2>5, DecideLone
  <1> QED BY <1>4, <1>5, EndsLone DEF Requests

\* An edit of the whole file goes on.
LEMMA EditStep ==
  ASSUME LoneHyp, NEW g \in Goroutine, NEW t \in Task, task' = [task EXCEPT ![g] = t],
         task[g].jobs = <<>>, t.jobs = <<>>, t.op \in {"edit", "undo"},
         Lone(g) /\ agreed => Undoable(g)'
  PROVE  LoneInv'
  <1>1. task'[g] = t /\ ~Reassigning(g)
    BY LoneNow
  <1>2. Shaped(t)
    BY DEF Shaped, EndsInReload
  <1>3. ReadsTruly(g)'
    BY <1>1 DEF ReadsTruly, Reassigning, HasJob
  <1>4. Lone(g) /\ agreed => Course(g)'
    BY <1>1 DEF Course
  <1> QED BY <1>1, <1>2, <1>3, <1>4, LoneStep

LEMMA EditsLone == ASSUME LoneHyp, NEW g \in Goroutine, Edits(g) PROVE LoneInv'
  <1>1. task'[g] \in Task
    BY EditsKeep DEF LoneHyp, IInv, StateOK
  <1>2. task \in [Goroutine -> Task] /\ task[g] \in Task
    BY TestFacts
  <1>3. ASSUME NEW form \in Lists, StartEdit(g, form) PROVE LoneInv'
    <2> DEFINE got == Normalized(form)
               t == [Idle EXCEPT !.op = "edit", !.stage = "truncate", !.got = got,
                                 !.old = disk, !.oldTorn = torn]
    <2>1. /\ task' = [task EXCEPT ![g] = t] /\ MayStart(g)
          /\ UNCHANGED <<disk, torn, cfg, pool, faults>>
      BY <1>3 DEF StartEdit, Start
    <2> HIDE DEF got
    <2>2. t \in Task /\ task'[g] = t
      BY <1>1, <1>2, <2>1
    <2>3. /\ t.op = "edit" /\ t.stage = "truncate" /\ t.jobs = <<>>
          /\ t.old = disk /\ t.oldTorn = torn
      BY DEF Idle
    <2> HIDE DEF t
    <2>4. task[g].jobs = <<>>
      BY <2>1, LoneNow DEF MayStart, Busy, Shaped
    <2>5. Lone(g) /\ agreed => ~torn /\ cfg = Normalized(disk)
      BY <2>1, LoneNow DEF Settled, MayStart
    <2>6. Lone(g) /\ agreed => Undoable(g)'
      BY <2>1, <2>2, <2>3, <2>5 DEF Undoable
    <2> QED BY <2>1, <2>2, <2>3, <2>4, <2>6, EditStep
  <1>4. ASSUME EditFails(g) \/ EditTruncates(g) \/ EditWrites(g) \/ EditAccepted(g)
                 \/ EditRejected(g) \/ EditUndone(g)
        PROVE  /\ task[g].op \in {"edit", "undo"} /\ task[g].jobs = <<>> /\ Busy(g)
               /\ Lone(g) /\ agreed => Undoable(g)
    <2>1. task[g].op \in {"edit", "undo"} /\ task[g].jobs = <<>>
      BY <1>4 DEF EditFails, EditTruncates, EditWrites, EditAccepted, EditRejected, EditUndone,
                  Editing
    <2> QED BY <2>1, LoneNow DEF Busy
  <1>5. CASE EditFails(g) \/ EditUndone(g)
    <2>1. /\ task' = [task EXCEPT ![g] = Idle] /\ UNCHANGED <<disk, torn, cfg, pool, faults>>
          /\ \/ task[g].op = "edit" /\ task[g].stage = "truncate"
             \/ task[g].op = "undo" /\ task[g].stage = "check"
      BY <1>5 DEF EditFails, EditUndone, Editing
    <2>2. Undoable(g) => disk = task[g].old /\ ~torn /\ cfg = Normalized(disk)
      BY <2>1 DEF Undoable
    <2>3. Lone(g) /\ agreed => Settled'
      BY <1>4, <1>5, <2>1, <2>2 DEF Settled
    <2> QED BY <1>4, <1>5, <2>1, <2>3, EndLone
  <1>6. CASE EditTruncates(g)
    <2> DEFINE t == [task[g] EXCEPT !.stage = "write"]
    <2>1. /\ task' = [task EXCEPT ![g] = t] /\ torn' = TRUE
          /\ UNCHANGED <<disk, cfg, pool, faults>>
      BY <1>2, <1>6 DEF EditTruncates
    <2>2. t \in Task /\ task'[g] = t
      BY <1>1, <1>2, <2>1
    <2>3. /\ t.op = task[g].op /\ t.stage = "write" /\ t.jobs = task[g].jobs
          /\ t.old = task[g].old /\ t.oldTorn = task[g].oldTorn /\ t.got = task[g].got
      BY <1>2 DEF Task
    <2> HIDE DEF t
    <2>4. Undoable(g) => Undoable(g)'
      BY <2>1, <2>2, <2>3 DEF Undoable
    <2> QED BY <1>4, <1>6, <2>1, <2>2, <2>3, <2>4, EditStep
  <1>7. CASE EditWrites(g)
    <2> DEFINE t == [task[g] EXCEPT !.stage = "check"]
    <2>1. /\ task' = [task EXCEPT ![g] = t] /\ disk' = task[g].got
          /\ torn' = (task[g].op = "undo" /\ task[g].oldTorn)
          /\ UNCHANGED <<cfg, pool, faults>>
      BY <1>2, <1>7 DEF EditWrites
    <2>2. t \in Task /\ task'[g] = t
      BY <1>1, <1>2, <2>1
    <2>3. /\ t.op = task[g].op /\ t.stage = "check" /\ t.jobs = task[g].jobs
          /\ t.old = task[g].old /\ t.oldTorn = task[g].oldTorn /\ t.got = task[g].got
      BY <1>2 DEF Task
    <2> HIDE DEF t
    <2>4. Undoable(g) => Undoable(g)'
      BY <2>1, <2>2, <2>3 DEF Undoable
    <2> QED BY <1>4, <1>7, <2>1, <2>2, <2>3, <2>4, EditStep
  <1>8. CASE EditAccepted(g)
    <2> DEFINE want == Decided(task[g].got, IP)
               jobs == <<ReloadJob>>
               t == [Idle EXCEPT !.op = "save", !.jobs = jobs, !.want = want]
    <2>1. /\ task' = [task EXCEPT ![g] = t] /\ ~torn
          /\ UNCHANGED <<disk, torn, cfg, pool, faults>>
      BY <1>8 DEF EditAccepted
    <2>2. jobs # <<>> /\ EndsInReload(jobs)
      <3>1. ReloadJob.key = "reload"
        BY DEF ReloadJob
      <3> HIDE DEF ReloadJob
      <3> QED BY <3>1 DEF EndsInReload
    <2> HIDE DEF want, jobs
    <2>3. t \in Task
      BY <1>1, <1>2, <2>1
    <2>4. t.op = "save" /\ t.stage = "read" /\ t.jobs = jobs
      BY DEF Idle
    <2> HIDE DEF t
    <2> QED BY <1>4, <1>8, <2>1, <2>2, <2>3, <2>4, DecideLone
  <1>9. CASE EditRejected(g)
    <2> DEFINE t == [task[g] EXCEPT !.op = "undo", !.stage = "truncate", !.got = task[g].old]
    <2>1. /\ task' = [task EXCEPT ![g] = t] /\ task[g].stage = "check"
          /\ UNCHANGED <<disk, torn, cfg, pool, faults>>
      BY <1>2, <1>9 DEF EditRejected, Editing
    <2>2. t \in Task /\ task'[g] = t
      BY <1>1, <1>2, <2>1
    <2>3. /\ t.op = "undo" /\ t.stage = "truncate" /\ t.jobs = task[g].jobs
          /\ t.old = task[g].old /\ t.oldTorn = task[g].oldTorn /\ t.got = task[g].old
      BY <1>2 DEF Task
    <2> HIDE DEF t
    <2>4. Undoable(g) => Undoable(g)'
      BY <2>1, <2>2, <2>3 DEF Undoable
    <2> QED BY <1>4, <1>9, <2>1, <2>2, <2>3, <2>4, EditStep
  <1> QED BY <1>3, <1>5, <1>6, <1>7, <1>8, <1>9 DEF Edits

LEMMA InitLone == Init => LoneInv
  <1> SUFFICES ASSUME Init PROVE LoneInv
    OBVIOUS
  <1>1. \A g \in Goroutine : task[g] = Idle
    BY DEF Init
  <1>2. Idle.op = "idle" /\ Idle.jobs = <<>> /\ Idle.stage = "read"
    BY DEF Idle
  <1>3. \A g \in Goroutine : ~Busy(g) /\ Shaped(task[g])
    BY <1>1, <1>2 DEF Busy, Shaped, EndsInReload
  <1>4. Settled
    <2>1. disk = Normalized(disk) /\ torn = FALSE /\ cfg = disk
      BY DEF Init
    <2> QED BY <2>1 DEF Settled
  <1>5. met = {}
    BY DEF Init
  <1> QED BY <1>3, <1>4, <1>5 DEF LoneInv

LEMMA NextLone == ASSUME IInv, LoneInv, [Next]_vars PROVE LoneInv'
  <1>1. CASE UNCHANGED vars
    <2>1. UNCHANGED <<disk, torn, cfg, pool, task, faults, met, agreed>> /\ LoneInv
      BY <1>1 DEF vars
    <2> QED BY <2>1 DEF LoneInv, Settled, Quiet, Busy, Course, InStep, Undoable, ReadsTruly,
                       Reassigning, HasJob, Job1, Shaped
  <1>2. CASE Next
    <2>1. Tester \subseteq Goroutine /\ Web \subseteq Goroutine
      BY DEF Goroutine
    <2>2. Step /\ LoneHyp
      BY <1>2 DEF Next, LoneHyp
    <2> QED BY <2>1, <2>2, SetsLone, ReloadsLone, TestsLone, RequestsLone, EditsLone DEF Step
  <1> QED BY <1>1, <1>2

-----------------------------------------------------------------------------
(* The theorems. *)

LEMMA NextInv == ASSUME IInv, [Next]_vars PROVE IInv'
  <1>1. CASE UNCHANGED vars
    BY <1>1 DEF IInv, StateOK, ExclusiveOnDisk, vars
  <1>2. CASE Next
    <2>1. Tester \subseteq Goroutine /\ Web \subseteq Goroutine
      BY DEF Goroutine
    <2> QED BY <1>2, <2>1, SetsKeep, ReloadsKeep, TestsKeep, RequestsKeep, EditsKeep
           DEF Next, Step
  <1> QED BY <1>1, <1>2

LEMMA Inductive == Spec => []IInv
  <1>1. Init => IInv
    BY InitInv
  <1>2. IInv /\ [Next]_vars => IInv'
    BY NextInv
  <1> QED BY <1>1, <1>2, PTL DEF Spec

\* Lists, jobs and copies keep their shape, and no Set that skips a job on
\* failure runs past the end of its jobs (removeSlowPostPoolIP).
THEOREM ListsTypeCorrect == Spec => []TypeOK
  <1> DEFINE History == met \in SUBSET Goroutine /\ agreed \in BOOLEAN
  <1>1. Init => History
    BY DEF Init
  <1>2. History /\ [Next]_vars => History'
    BY DEF Next, Recorded, vars
  <1>3. IInv /\ History => TypeOK
    BY DEF IInv, TypeOK
  <1> HIDE DEF History
  <1> QED BY <1>1, <1>2, <1>3, Inductive, PTL DEF Spec

\* However many goroutines write whichever lists at once, with copies as old as
\* they like and failing in between: config.Set never leaves an address in two
\* lists of the file.
THEOREM DiskStaysExclusive == Spec => []ExclusiveOnDisk
  <1>1. IInv => ExclusiveOnDisk
    BY DEF IInv
  <1> QED BY <1>1, Inductive, PTL

\* However operations overlapped, failed, were refused and taken back: from the
\* reload of one that met nobody on, and until others meet or a write fails, the
\* lists in use are those of the file whenever everyone is done (config.Set and
\* Load, handleCFNatConfigFile, removeSlowPostPoolIP, unblacklistRestoredIPs,
\* persistPostPoolExemptList).
THEOREM ReloadsHeal == Spec => []AgreedAtRest
  <1>1. Init => IInv /\ LoneInv
    BY InitInv, InitLone
  <1>2. IInv /\ LoneInv /\ [Next]_vars => IInv' /\ LoneInv'
    BY NextInv, NextLone
  <1>3. LoneInv => AgreedAtRest
    BY DEF LoneInv, AgreedAtRest
  <1> QED BY <1>1, <1>2, <1>3, PTL DEF Spec
=============================================================================
