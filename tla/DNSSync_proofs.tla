---------------------------- MODULE DNSSync_proofs ----------------------------
(***************************************************************************)
(* Proofs about DNSSync for every set of goroutines, addresses and record  *)
(* identifiers, and every sync_count.                                      *)
(***************************************************************************)
EXTENDS DNSSync, TLAPS

-----------------------------------------------------------------------------
(* What the helpers return. *)

LEMMA DesiredType == ASSUME NEW pool PROVE Desired(pool) \in SUBSET Content
  BY DEF Desired

\* A list answer is turned into additions among the wanted addresses and into
\* deletions of listed records only.
LEMMA DifferenceType ==
  ASSUME NEW recs \in SUBSET Record, NEW desired \in SUBSET Content
  PROVE  /\ Missing(desired, recs) \in SUBSET Content
         /\ Stale(desired, recs) \in SUBSET RecordId
  BY DEF Missing, Stale, Ids, Record

LEMMA WithRecordType ==
  ASSUME TypeOK, NEW c \in Content, NEW id \in RecordId,
         NEW owner \in {"managed", "user"}
  PROVE  WithRecord(c, owner, id) \in SUBSET Record
  BY DEF TypeOK, WithRecord, Record

\* A failing goroutine forgets what it still had to do.
LEMMA FailType ==
  ASSUME TypeOK, NEW s \in Syncer, Fail(s)
  PROVE  sync' \in [Syncer -> Task]
  BY DEF TypeOK, Fail, Task

\* The history keeps its type, and tells everybody who is busy what was done.
LEMMA HistoryType ==
  ASSUME TypeOK, NEW s \in Syncer, NEW took \in SUBSET Content,
         NEW brought \in SUBSET Content, Meanwhile(s, took, brought)
  PROVE  /\ gone' \in [Syncer -> SUBSET Content] /\ come' \in [Syncer -> SUBSET Content]
         /\ \A t \in Syncer : Busy(t)' => /\ gone[t] \subseteq gone'[t]
                                          /\ come[t] \subseteq come'[t]
         /\ \A t \in Syncer \ {s} : Busy(t)' => took \subseteq gone'[t] /\ brought \subseteq come'[t]
  BY DEF TypeOK, Meanwhile

\* The addresses of a record that is deleted.
LEMMA TakenType == ASSUME TypeOK, NEW id PROVE Contents({r \in zone : r.id = id}) \in SUBSET Content
  BY DEF TypeOK, Contents, Record

-----------------------------------------------------------------------------
(* Type correctness. *)

LEMMA InitType == Init => TypeOK
  <1> SUFFICES ASSUME Init PROVE TypeOK OBVIOUS
  <1>1. zone \in SUBSET Record BY DEF Init
  <1>2. userRecs \in SUBSET Record BY <1>1 DEF Init
  <1>3. sync \in [Syncer -> Task] BY DEF Init, Task
  <1>4. gone \in [Syncer -> SUBSET Content] /\ come \in [Syncer -> SUBSET Content] BY DEF Init
  <1> QED BY <1>1, <1>2, <1>3, <1>4 DEF TypeOK

LEMMA StepType ==
  ASSUME TypeOK, NEW s \in Syncer, Step(s)
  PROVE  TypeOK'
  <1>0. sync[s] \in Task BY DEF TypeOK
  <1>h. ASSUME NEW took \in SUBSET Content, NEW brought \in SUBSET Content,
               Meanwhile(s, took, brought), sync' \in [Syncer -> Task],
               zone' \in SUBSET Record, userRecs' = userRecs
        PROVE  TypeOK'
    BY <1>h, HistoryType DEF TypeOK
  <1>z. zone \in SUBSET Record /\ {} \in SUBSET Content BY DEF TypeOK
  <1>1. CASE List(s)
    <2>1. sync[s].desired \in SUBSET Content BY <1>0 DEF Task
    <2>2. /\ Missing(sync[s].desired, zone) \in SUBSET Content
          /\ Stale(sync[s].desired, zone) \in SUBSET RecordId
      BY <2>1, DifferenceType DEF TypeOK
    <2> QED BY <1>1, <2>1, <2>2 DEF TypeOK, List, Task
  <1>2. CASE ListFails(s)
    BY <1>2, <1>h, <1>z, FailType DEF ListFails
  <1>3. CASE Return(s)
    <2>1. sync' \in [Syncer -> Task] BY <1>3, <1>0 DEF TypeOK, Return, Task
    <2> QED BY <1>3, <1>h, <1>z, <2>1 DEF Return
  <1>4. ASSUME NEW c \in Content, Create(s, c) PROVE TypeOK'
    <2>1. zone' \in SUBSET Record /\ {c} \in SUBSET Content
      BY <1>4, WithRecordType DEF Create
    <2>2. sync' \in [Syncer -> Task]
      <3>1. CASE Fail(s) BY <3>1, FailType
      <3>2. CASE sync' = [sync EXCEPT ![s].add = @ \ {c}]
        BY <1>0, <3>2 DEF TypeOK, Task
      <3> QED BY <1>4, <3>1, <3>2 DEF Create
    <2> QED BY <1>4, <1>h, <1>z, <2>1, <2>2 DEF Create
  <1>5. ASSUME NEW c \in Content, CreateFails(s, c) PROVE TypeOK'
    BY <1>5, <1>h, <1>z, FailType DEF CreateFails
  <1>6. ASSUME NEW id \in RecordId, Delete(s, id) PROVE TypeOK'
    <2>1. zone' \in SUBSET Record BY <1>6 DEF Delete, TypeOK
    <2>2. sync' \in [Syncer -> Task]
      <3>1. CASE Fail(s) BY <3>1, FailType
      <3>2. CASE sync' = [sync EXCEPT ![s].drop = @ \ {id}]
        BY <1>0, <3>2 DEF TypeOK, Task
      <3> QED BY <1>6, <3>1, <3>2 DEF Delete
    <2>3. Contents({r \in zone : r.id = id}) \in SUBSET Content BY TakenType
    <2> QED BY <1>6, <1>h, <1>z, <2>1, <2>2, <2>3 DEF Delete
  <1>7. ASSUME NEW id \in RecordId, DeleteFails(s, id) PROVE TypeOK'
    BY <1>7, <1>h, <1>z, FailType DEF DeleteFails
  <1> QED BY <1>1, <1>2, <1>3, <1>4, <1>5, <1>6, <1>7 DEF Step

LEMMA CallType ==
  ASSUME TypeOK, NEW s \in Syncer, NEW pool, Call(s, pool)
  PROVE  TypeOK'
  <1>1. sync' \in [Syncer -> Task]
    BY DesiredType DEF TypeOK, Call, Task
  <1>2. /\ Meanwhile(s, {}, {}) /\ {} \in SUBSET Content BY DEF Call
  <1>3. gone' \in [Syncer -> SUBSET Content] /\ come' \in [Syncer -> SUBSET Content]
    BY <1>2, HistoryType
  <1> QED BY <1>1, <1>3 DEF TypeOK, Call

LEMMA UserType ==
  ASSUME TypeOK, \E c \in Content : UserCreates(c)
  PROVE  TypeOK'
  <1>1. ASSUME NEW c \in Content, UserCreates(c) PROVE TypeOK'
    <2>1. zone' \in SUBSET Record
      BY <1>1, WithRecordType DEF UserCreates
    <2>2. userRecs' \in SUBSET Record
      BY <1>1 DEF UserCreates, TypeOK, Record
    <2> QED BY <1>1, <2>1, <2>2 DEF TypeOK, UserCreates
  <1> QED BY <1>1

LEMMA NextType == TypeOK /\ [Next]_vars => TypeOK'
  <1> SUFFICES ASSUME TypeOK, [Next]_vars PROVE TypeOK' OBVIOUS
  <1>1. CASE UNCHANGED vars BY <1>1 DEF TypeOK, vars
  <1>2. CASE Next BY <1>2, StepType, CallType, UserType DEF Next
  <1> QED BY <1>1, <1>2

\* Every reachable state is well typed, however many goroutines call Sync.
THEOREM TypeCorrect == Spec => []TypeOK
  BY InitType, NextType, PTL DEF Spec
-----------------------------------------------------------------------------
(***************************************************************************)
(* The owner's records.  UserRecordsKept is inductive together with        *)
(* IdsIdentify and DropsAreManaged: a deletion goes by identifier, so it   *)
(* is harmless only while the identifiers a goroutine remembers cannot     *)
(* have come to name somebody else's record.                               *)
(***************************************************************************)
UserInv == TypeOK /\ UserRecordsKept /\ IdsIdentify /\ DropsAreManaged

\* A fresh identifier is neither in the zone nor remembered by anybody.
LEMMA FreshIsNew ==
  ASSUME TypeOK, NEW id, Fresh(id)
  PROVE  /\ \A r \in zone : r.id # id
         /\ \A s \in Syncer : id \notin sync[s].drop
  BY DEF Fresh, Ids

\* Creating a record under a fresh identifier keeps identifiers unambiguous.
LEMMA CreationKeeps ==
  ASSUME UserInv, NEW c \in Content, NEW id \in RecordId, Fresh(id),
         NEW owner \in {"managed", "user"}, zone' = WithRecord(c, owner, id),
         \A s \in Syncer : sync'[s].drop \subseteq sync[s].drop
  PROVE  IdsIdentify' /\ DropsAreManaged'
  <1> DEFINE new == [id |-> id, content |-> c, owner |-> owner]
  <1>1. zone' = zone \cup {new} BY DEF WithRecord
  <1>2. \A r \in zone : r.id # new.id BY FreshIsNew DEF UserInv
  <1>3. \A s \in Syncer : new.id \notin sync'[s].drop BY FreshIsNew DEF UserInv
  <1> HIDE DEF new
  <1>4. IdsIdentify' BY <1>1, <1>2 DEF IdsIdentify, UserInv
  <1>5. DropsAreManaged' BY <1>1, <1>3 DEF DropsAreManaged, UserInv
  <1> QED BY <1>4, <1>5

\* Deleting records, and forgetting what was to be deleted, keeps them too.
LEMMA RemovalKeeps ==
  ASSUME UserInv, zone' \subseteq zone,
         \A s \in Syncer : sync'[s].drop \subseteq sync[s].drop
  PROVE  IdsIdentify' /\ DropsAreManaged'
  BY DEF UserInv, IdsIdentify, DropsAreManaged

LEMMA FailForgets ==
  ASSUME TypeOK, NEW s \in Syncer, Fail(s)
  PROVE  \A t \in Syncer : sync'[t].drop \subseteq sync[t].drop
  BY DEF TypeOK, Fail

LEMMA UserStep ==
  ASSUME UserInv, NEW s \in Syncer, Step(s)
  PROVE  UserRecordsKept' /\ IdsIdentify' /\ DropsAreManaged'
  <1>0. /\ TypeOK /\ UserRecordsKept /\ IdsIdentify /\ DropsAreManaged
        /\ sync \in [Syncer -> Task] /\ zone \in SUBSET Record
    BY DEF UserInv, TypeOK
  <1>1. CASE List(s)
    <2>1. sync' = [sync EXCEPT ![s] = [pc |-> "applying", desired |-> @.desired,
                     add |-> Missing(@.desired, zone), drop |-> Stale(@.desired, zone)]]
      BY <1>1 DEF List
    <2>2. sync'[s].drop = Stale(sync[s].desired, zone) BY <1>0, <2>1
    <2>3. \A t \in Syncer : t # s => sync'[t] = sync[t] BY <1>0, <2>1
    <2>4. ASSUME NEW r \in zone, r.id \in Stale(sync[s].desired, zone)
          PROVE  r.owner = "managed"
      BY <1>0, <2>4 DEF Stale, Ids, IdsIdentify
    <2>5. zone' = zone /\ userRecs' = userRecs BY <1>1 DEF List
    <2>6. DropsAreManaged' BY <1>0, <2>2, <2>3, <2>4, <2>5 DEF DropsAreManaged
    <2> QED BY <1>0, <2>5, <2>6 DEF UserRecordsKept, IdsIdentify
  <1>2. ASSUME zone' = zone, userRecs' = userRecs,
               \A t \in Syncer : sync'[t].drop \subseteq sync[t].drop
        PROVE  UserRecordsKept' /\ IdsIdentify' /\ DropsAreManaged'
    BY <1>0, <1>2, RemovalKeeps DEF UserRecordsKept
  <1>3. CASE ListFails(s) BY <1>0, <1>2, <1>3, FailForgets DEF ListFails
  <1>4. CASE Return(s) BY <1>0, <1>2, <1>4 DEF Return
  <1>5. ASSUME NEW c \in Content, Create(s, c)
        PROVE  UserRecordsKept' /\ IdsIdentify' /\ DropsAreManaged'
    <2>1. PICK id \in RecordId : Fresh(id) /\ zone' = WithRecord(c, "managed", id)
      BY <1>5 DEF Create
    <2>2. \A t \in Syncer : sync'[t].drop \subseteq sync[t].drop
      <3>1. CASE Fail(s) BY <1>0, <3>1, FailForgets
      <3>2. CASE sync' = [sync EXCEPT ![s].add = @ \ {c}] BY <1>0, <3>2
      <3> QED BY <1>5, <3>1, <3>2 DEF Create
    <2>3. UserRecordsKept'
      BY <1>0, <1>5, <2>1 DEF Create, UserRecordsKept, WithRecord
    <2> QED BY <2>1, <2>2, <2>3, CreationKeeps
  <1>6. ASSUME NEW c \in Content, CreateFails(s, c)
        PROVE  UserRecordsKept' /\ IdsIdentify' /\ DropsAreManaged'
    BY <1>0, <1>2, <1>6, FailForgets DEF CreateFails
  <1>7. ASSUME NEW id \in RecordId, Delete(s, id)
        PROVE  UserRecordsKept' /\ IdsIdentify' /\ DropsAreManaged'
    <2>1. zone' = {r \in zone : r.id # id} /\ userRecs' = userRecs /\ id \in sync[s].drop
      BY <1>7 DEF Delete, MayDelete
    <2>2. \A r \in zone : r.id = id => r.owner = "managed"
      BY <1>0, <2>1 DEF DropsAreManaged
    <2>3. UserRecordsKept' BY <1>0, <2>1, <2>2 DEF UserRecordsKept
    <2>4. \A t \in Syncer : sync'[t].drop \subseteq sync[t].drop
      <3>1. CASE Fail(s) BY <1>0, <3>1, FailForgets
      <3>2. CASE sync' = [sync EXCEPT ![s].drop = @ \ {id}] BY <1>0, <3>2
      <3> QED BY <1>7, <3>1, <3>2 DEF Delete
    <2> QED BY <2>1, <2>3, <2>4, RemovalKeeps
  <1>8. ASSUME NEW id \in RecordId, DeleteFails(s, id)
        PROVE  UserRecordsKept' /\ IdsIdentify' /\ DropsAreManaged'
    BY <1>0, <1>2, <1>8, FailForgets DEF DeleteFails
  <1> QED BY <1>1, <1>3, <1>4, <1>5, <1>6, <1>7, <1>8 DEF Step

LEMMA UserOther ==
  ASSUME UserInv,
         \/ \E s \in Syncer, pool \in Pools : Call(s, pool)
         \/ \E c \in Content : UserCreates(c)
  PROVE  UserRecordsKept' /\ IdsIdentify' /\ DropsAreManaged'
  <1>0. /\ TypeOK /\ UserRecordsKept /\ IdsIdentify /\ DropsAreManaged
        /\ sync \in [Syncer -> Task] /\ zone \in SUBSET Record
    BY DEF UserInv, TypeOK
  <1>1. ASSUME NEW s \in Syncer, NEW pool \in Pools, Call(s, pool)
        PROVE  UserRecordsKept' /\ IdsIdentify' /\ DropsAreManaged'
    <2>1. \A t \in Syncer : sync'[t].drop \subseteq sync[t].drop
      BY <1>0, <1>1 DEF Call
    <2>2. zone' = zone /\ userRecs' = userRecs BY <1>1 DEF Call
    <2> QED BY <1>0, <2>1, <2>2, RemovalKeeps DEF UserRecordsKept
  <1>2. ASSUME NEW c \in Content, UserCreates(c)
        PROVE  UserRecordsKept' /\ IdsIdentify' /\ DropsAreManaged'
    <2>1. PICK id \in RecordId :
            /\ Fresh(id)
            /\ zone' = WithRecord(c, "user", id)
            /\ userRecs' = userRecs \cup {[id |-> id, content |-> c, owner |-> "user"]}
      BY <1>2 DEF UserCreates
    <2>2. sync' = sync BY <1>2 DEF UserCreates
    <2>3. UserRecordsKept' BY <1>0, <2>1 DEF UserRecordsKept, WithRecord
    <2> QED BY <2>1, <2>2, <2>3, CreationKeeps
  <1> QED BY <1>1, <1>2

\* Whatever the interleaving of syncs, failures, lost answers and hand edits,
\* Sync (dns.go:80-96) deletes none of the owner's records.
THEOREM OwnersRecordsAreSafe == Spec => []UserRecordsKept
  <1>1. Init => UserInv
    <2> SUFFICES ASSUME Init PROVE UserInv OBVIOUS
    <2>1. TypeOK BY InitType
    <2>2. UserRecordsKept /\ IdsIdentify /\ DropsAreManaged
      BY DEF Init, UserRecordsKept, IdsIdentify, DropsAreManaged
    <2> QED BY <2>1, <2>2 DEF UserInv
  <1>2. UserInv /\ [Next]_vars => UserInv'
    <2> SUFFICES ASSUME UserInv, [Next]_vars PROVE UserInv' OBVIOUS
    <2>1. TypeOK' BY NextType DEF UserInv
    <2>2. CASE UNCHANGED vars
      BY <2>1, <2>2 DEF vars, UserInv, UserRecordsKept, IdsIdentify, DropsAreManaged
    <2>3. CASE Next BY <2>1, <2>3, UserStep, UserOther DEF Next, UserInv
    <2> QED BY <2>2, <2>3
  <1>3. UserInv => UserRecordsKept BY DEF UserInv
  <1> QED BY <1>1, <1>2, <1>3, PTL DEF Spec
-----------------------------------------------------------------------------
(***************************************************************************)
(* What a goroutine knows of the zone.  Sees(t) says that what t listed is   *)
(* still true, but for what others did: without it neither the order of      *)
(* creations and deletions nor the final answer would mean anything.        *)
(***************************************************************************)
ListingWants == \A s \in Syncer : sync[s].pc = "listing" => sync[s].desired # {}

SyncInv == UserInv /\ ContentsIdentify /\ ViewIsCurrent /\ ListingWants

LEMMA ContentsOfNew ==
  ASSUME NEW recs, NEW c, NEW id, NEW owner
  PROVE  Contents(recs \cup {[id |-> id, content |-> c, owner |-> owner]})
           = Contents(recs) \cup {c}
  <1> DEFINE new == [id |-> id, content |-> c, owner |-> owner]
  <1>1. new.content = c OBVIOUS
  <1> HIDE DEF new
  <1>2. Contents(recs \cup {new}) = Contents(recs) \cup {new.content} BY DEF Contents
  <1> QED BY <1>1, <1>2 DEF new

\* Addresses stay unambiguous.
LEMMA ContentsStay ==
  ASSUME ContentsIdentify
  PROVE  /\ zone' \subseteq zone => ContentsIdentify'
         /\ \A c, id, owner : CanCreate(c) /\ zone' = WithRecord(c, owner, id) => ContentsIdentify'
  <1>1. zone' \subseteq zone => ContentsIdentify' BY DEF ContentsIdentify
  <1>2. ASSUME NEW c, NEW id, NEW owner, CanCreate(c), zone' = WithRecord(c, owner, id)
        PROVE  ContentsIdentify'
    <2> DEFINE new == [id |-> id, content |-> c, owner |-> owner]
    <2>1. zone' = zone \cup {new} /\ new.content = c BY <1>2 DEF WithRecord
    <2>2. \A r \in zone : r.content # c BY <1>2 DEF CanCreate, Contents
    <2> HIDE DEF new
    <2> QED BY <2>1, <2>2 DEF ContentsIdentify
  <1> QED BY <1>1, <1>2

\* Goroutine t sees the zone after a step of anybody that leaves the zone alone, adds a
\* record, or deletes one.
LEMMA SeesSame ==
  ASSUME NEW t \in Syncer, Sees(t), zone' = zone, sync'[t] = sync[t],
         gone[t] \subseteq gone'[t], come[t] \subseteq come'[t]
  PROVE  Sees(t)'
  <1>1. Contents(zone)' = Contents(zone) BY DEF Contents
  <1> QED BY <1>1 DEF Sees

LEMMA SeesNew ==
  ASSUME TypeOK, NEW t \in Syncer, Sees(t), NEW c, NEW id, Fresh(id),
         NEW owner, zone' = WithRecord(c, owner, id),
         sync'[t].desired = sync[t].desired, sync'[t].drop = sync[t].drop,
         sync'[t].add \subseteq sync[t].add, sync[t].add \ {c} \subseteq sync'[t].add,
         gone[t] \subseteq gone'[t], come[t] \subseteq come'[t],
         owner = "user" \/ c \in sync[t].desired \cup come'[t]
  PROVE  Sees(t)'
  <1> DEFINE new == [id |-> id, content |-> c, owner |-> owner]
  <1>1. zone' = zone \cup {new} BY DEF WithRecord
  <1>2. new.id = id /\ new.content = c /\ new.owner = owner OBVIOUS
  <1>3. Contents(zone)' = Contents(zone) \cup {c}
    <2>1. Contents(zone \cup {new}) = Contents(zone) \cup {c} BY ContentsOfNew
    <2> HIDE DEF new
    <2> QED BY <1>1, <2>1 DEF Contents
  <1>4. id \notin sync[t].drop BY FreshIsNew
  <1> HIDE DEF new
  <1>5. sync'[t].desired \subseteq Contents(zone)' \cup sync'[t].add \cup gone'[t]
    BY <1>3 DEF Sees
  <1>6. \A r \in zone' : r.id \in sync'[t].drop => r.content \notin sync'[t].desired
    BY <1>1, <1>2, <1>4 DEF Sees
  <1>7. \A r \in zone' : r.owner = "managed" =>
          r.content \in sync'[t].desired \cup come'[t] \/ r.id \in sync'[t].drop
    BY <1>1, <1>2 DEF Sees
  <1> QED BY <1>5, <1>6, <1>7 DEF Sees

LEMMA SeesLess ==
  ASSUME NEW t \in Syncer, Sees(t), NEW id, zone' = {r \in zone : r.id # id},
         sync'[t].desired = sync[t].desired, sync'[t].add = sync[t].add,
         sync'[t].drop \subseteq sync[t].drop, sync[t].drop \ {id} \subseteq sync'[t].drop,
         gone[t] \subseteq gone'[t], come[t] \subseteq come'[t],
         \A r \in zone : r.id = id => r.content \notin sync[t].desired \/ r.content \in gone'[t]
  PROVE  Sees(t)'
  <1>1. sync[t].desired \cap Contents(zone) \subseteq Contents(zone)' \cup gone'[t]
    BY DEF Contents
  <1> QED BY <1>1 DEF Sees

\* What a step of s leaves alone.
LEMMA OthersStay ==
  ASSUME TypeOK, NEW s \in Syncer, Step(s) \/ \E pool \in Pools : Call(s, pool)
  PROVE  \A t \in Syncer \ {s} : sync'[t] = sync[t] /\ (Busy(t)' <=> Busy(t))
  <1>1. \A t \in Syncer \ {s} : sync'[t] = sync[t]
    BY DEF TypeOK, Step, Call, List, ListFails, Return, Create, CreateFails, Delete,
           DeleteFails, Fail
  <1> QED BY <1>1 DEF Busy

LEMMA FailEnds ==
  ASSUME TypeOK, NEW s \in Syncer, Fail(s) PROVE sync'[s].pc = "failed"
  BY DEF TypeOK, Fail

\* What goroutine s does at its own account.
Mine(s) ==
    /\ ContentsIdentify'
    /\ \A t \in Syncer \ {s} : sync[t].pc = "applying" => Sees(t)'
    /\ sync'[s].pc = "applying" => Sees(s)'
    /\ sync'[s].pc = "listing" => sync'[s].desired # {}
    /\ zone # {} /\ zone' = {} /\ sync'[s] # sync[s] => sync[s].desired \subseteq gone[s]
    /\ Busy(s) /\ sync'[s].pc = "ok" =>
          /\ sync[s].desired \subseteq Contents(zone) \cup gone[s]
          /\ ContentsOf("managed") \subseteq sync[s].desired \cup come[s]

\* Steps that leave the zone alone.
LEMMA QuietMine ==
  ASSUME SyncInv, NEW s \in Syncer, zone' = zone,
         \A t \in Syncer \ {s} : sync'[t] = sync[t],
         Meanwhile(s, {}, {}), sync'[s].pc \notin {"applying", "ok"},
         sync'[s].pc = "listing" => sync'[s].desired # {}
  PROVE  Mine(s)
  <1>1. TypeOK /\ ContentsIdentify /\ ViewIsCurrent BY DEF SyncInv, UserInv
  <1>2. ContentsIdentify' BY <1>1, ContentsStay
  <1>3. ASSUME NEW t \in Syncer \ {s}, sync[t].pc = "applying" PROVE Sees(t)'
    <2>1. Busy(t)' BY <1>3 DEF Busy
    <2>2. gone[t] \subseteq gone'[t] /\ come[t] \subseteq come'[t]
      <3>1. {} \in SUBSET Content OBVIOUS
      <3> QED BY <1>1, <2>1, <3>1, HistoryType
    <2> QED BY <1>1, <1>3, <2>2, SeesSame DEF ViewIsCurrent
  <1> QED BY <1>2, <1>3 DEF Mine

LEMMA StepMine ==
  ASSUME SyncInv, NEW s \in Syncer, Step(s)
  PROVE  Mine(s)
  <1>0. /\ TypeOK /\ ContentsIdentify /\ ViewIsCurrent /\ ListingWants /\ IdsIdentify
        /\ sync \in [Syncer -> Task] /\ zone \in SUBSET Record /\ sync[s] \in Task
    BY DEF SyncInv, UserInv, TypeOK
  <1>o. \A t \in Syncer \ {s} : sync'[t] = sync[t] /\ (Busy(t)' <=> Busy(t))
    BY <1>0, OthersStay
  <1>q. ASSUME Fail(s), zone' = zone, Meanwhile(s, {}, {}) PROVE Mine(s)
    BY <1>0, <1>o, <1>q, FailEnds, QuietMine
  <1>1. CASE List(s)
    <2> DEFINE d == sync[s].desired
    <2>1. /\ sync'[s] = [pc |-> "applying", desired |-> d,
                         add |-> Missing(d, zone), drop |-> Stale(d, zone)]
          /\ zone' = zone /\ gone'[s] = {} /\ come'[s] = {}
          /\ \A t \in Syncer \ {s} : gone'[t] = gone[t] /\ come'[t] = come[t]
      BY <1>0, <1>1 DEF List, TypeOK
    <2>2. Missing(d, zone) \subseteq d /\ d \subseteq Contents(zone) \cup Missing(d, zone)
      BY DEF Missing
    <2>3. \A r \in zone : r.id \in Stale(d, zone) => r.content \notin d
      BY <1>0 DEF Stale, Ids, IdsIdentify
    <2>4. \A r \in zone : r.owner = "managed" => r.content \in d \/ r.id \in Stale(d, zone)
      BY DEF Stale, Ids
    <2>5. d # {} BY <1>0, <1>1 DEF ListingWants, List
    <2>6. Contents(zone)' = Contents(zone) BY <2>1 DEF Contents
    <2> HIDE DEF d
    <2>7. Sees(s)' BY <2>1, <2>2, <2>3, <2>4, <2>5, <2>6 DEF Sees
    <2>8. ASSUME NEW t \in Syncer \ {s}, sync[t].pc = "applying" PROVE Sees(t)'
      BY <1>0, <1>o, <2>1, <2>8, SeesSame DEF ViewIsCurrent
    <2>9. ContentsIdentify' BY <1>0, <2>1, ContentsStay
    <2> QED BY <2>1, <2>7, <2>8, <2>9 DEF Mine
  <1>2. CASE ListFails(s) BY <1>2, <1>q DEF ListFails
  <1>3. CASE Return(s)
    <2>1. /\ sync[s].pc = "applying" /\ sync[s].add = {} /\ sync[s].drop = {}
          /\ sync'[s].pc = "ok" /\ zone' = zone /\ Meanwhile(s, {}, {})
      BY <1>0, <1>3 DEF Return, Task
    <2>2. Sees(s) BY <1>0, <2>1 DEF ViewIsCurrent
    <2>3. /\ sync[s].desired \subseteq Contents(zone) \cup gone[s]
          /\ ContentsOf("managed") \subseteq sync[s].desired \cup come[s]
      BY <2>1, <2>2 DEF Sees, ContentsOf, Contents
    <2>4. ASSUME NEW t \in Syncer \ {s}, sync[t].pc = "applying" PROVE Sees(t)'
      <3>1. gone[t] \subseteq gone'[t] /\ come[t] \subseteq come'[t]
        <4>1. {} \in SUBSET Content /\ Busy(t)' BY <1>o, <2>4 DEF Busy
        <4> QED BY <1>0, <2>1, <4>1, HistoryType
      <3> QED BY <1>0, <1>o, <2>1, <2>4, <3>1, SeesSame DEF ViewIsCurrent
    <2>5. ContentsIdentify' BY <1>0, <2>1, ContentsStay
    <2> QED BY <2>1, <2>3, <2>4, <2>5 DEF Mine
  <1>4. ASSUME NEW c \in Content, Create(s, c) PROVE Mine(s)
    <2>1. PICK id \in RecordId : Fresh(id) /\ zone' = WithRecord(c, "managed", id)
      BY <1>4 DEF Create
    <2>2. /\ sync[s].pc = "applying" /\ c \in sync[s].add /\ CanCreate(c)
          /\ Meanwhile(s, {}, {c}) /\ Busy(s)
      BY <1>4 DEF Create, MayCreate, Busy
    <2>3. ContentsIdentify' BY <1>0, <2>1, <2>2, ContentsStay
    <2>4. zone' # {} BY <2>1 DEF WithRecord
    <2>5. {} \in SUBSET Content /\ {c} \in SUBSET Content OBVIOUS
    <2>6. ASSUME NEW t \in Syncer \ {s}, sync[t].pc = "applying" PROVE Sees(t)'
      <3>1. Busy(t)' BY <1>o, <2>6 DEF Busy
      <3>2. /\ gone[t] \subseteq gone'[t] /\ come[t] \subseteq come'[t] /\ c \in come'[t]
        BY <1>0, <2>2, <2>5, <3>1, HistoryType
      <3>3. Sees(t) /\ sync'[t] = sync[t] BY <1>0, <1>o, <2>6 DEF ViewIsCurrent
      <3> QED BY <1>0, <2>1, <3>2, <3>3, SeesNew
    <2>7. CASE Fail(s)
      BY <1>0, <2>3, <2>4, <2>6, <2>7, FailEnds DEF Mine
    <2>8. CASE sync' = [sync EXCEPT ![s].add = @ \ {c}]
      <3>1. /\ sync'[s].pc = "applying" /\ sync'[s].desired = sync[s].desired
            /\ sync'[s].drop = sync[s].drop /\ sync'[s].add = sync[s].add \ {c}
        BY <1>0, <2>2, <2>8 DEF Task
      <3>2. Busy(s)' BY <3>1 DEF Busy
      <3>3. gone[s] \subseteq gone'[s] /\ come[s] \subseteq come'[s]
        BY <1>0, <2>2, <2>5, <3>2, HistoryType
      <3>4. Sees(s) BY <1>0, <2>2 DEF ViewIsCurrent
      <3>5. c \in sync[s].desired BY <2>2, <3>4 DEF Sees
      <3>6. Sees(s)' BY <1>0, <2>1, <3>1, <3>3, <3>4, <3>5, SeesNew
      <3> QED BY <2>3, <2>4, <2>6, <3>1, <3>6 DEF Mine
    <2> QED BY <1>4, <2>7, <2>8 DEF Create
  <1>5. ASSUME NEW c \in Content, CreateFails(s, c) PROVE Mine(s)
    BY <1>5, <1>q DEF CreateFails
  <1>6. ASSUME NEW id \in RecordId, Delete(s, id) PROVE Mine(s)
    <2> DEFINE took == Contents({r \in zone : r.id = id})
    <2>1. /\ sync[s].pc = "applying" /\ sync[s].add = {} /\ id \in sync[s].drop
          /\ zone' = {r \in zone : r.id # id} /\ Meanwhile(s, took, {})
      BY <1>6 DEF Delete, MayDelete
    <2>2. Sees(s) BY <1>0, <2>1 DEF ViewIsCurrent
    <2>3. \A r \in zone : r.id = id => r.content \notin sync[s].desired
      BY <2>1, <2>2 DEF Sees
    <2>4. zone' = {} => sync[s].desired \subseteq gone[s]
      BY <2>1, <2>2, <2>3 DEF Sees, Contents
    <2>5. took \in SUBSET Content /\ {} \in SUBSET Content BY <1>0, TakenType
    <2>6. \A r \in zone : r.id = id => r.content \in took BY DEF Contents
    <2> HIDE DEF took
    <2>7. ASSUME NEW t \in Syncer \ {s}, sync[t].pc = "applying" PROVE Sees(t)'
      <3>1. Busy(t)' BY <1>o, <2>7 DEF Busy
      <3>2. gone[t] \subseteq gone'[t] /\ come[t] \subseteq come'[t] /\ took \subseteq gone'[t]
        BY <1>0, <2>1, <2>5, <3>1, HistoryType
      <3>3. Sees(t) /\ sync'[t] = sync[t] BY <1>0, <1>o, <2>7 DEF ViewIsCurrent
      <3> QED BY <2>1, <2>6, <3>2, <3>3, SeesLess
    <2>8. ContentsIdentify' BY <1>0, <2>1, ContentsStay
    <2>9. CASE Fail(s) BY <1>0, <2>4, <2>7, <2>8, <2>9, FailEnds DEF Mine
    <2>10. CASE sync' = [sync EXCEPT ![s].drop = @ \ {id}]
      <3>1. /\ sync'[s].pc = "applying" /\ sync'[s].desired = sync[s].desired
            /\ sync'[s].drop = sync[s].drop \ {id} /\ sync'[s].add = sync[s].add
        BY <1>0, <2>1, <2>10 DEF Task
      <3>2. Busy(s)' BY <3>1 DEF Busy
      <3>3. gone[s] \subseteq gone'[s] /\ come[s] \subseteq come'[s]
        BY <1>0, <2>1, <2>5, <3>2, HistoryType
      <3>4. Sees(s)' BY <2>1, <2>2, <2>3, <3>1, <3>3, SeesLess
      <3> QED BY <2>4, <2>7, <2>8, <3>1, <3>4 DEF Mine
    <2> QED BY <1>6, <2>9, <2>10 DEF Delete
  <1>7. ASSUME NEW id \in RecordId, DeleteFails(s, id) PROVE Mine(s)
    BY <1>7, <1>q DEF DeleteFails
  <1> QED BY <1>1, <1>2, <1>3, <1>4, <1>5, <1>6, <1>7 DEF Step

LEMMA CallMine ==
  ASSUME SyncInv, NEW s \in Syncer, NEW pool \in Pools, Call(s, pool)
  PROVE  Mine(s)
  <1>0. TypeOK /\ sync \in [Syncer -> Task] BY DEF SyncInv, UserInv, TypeOK
  <1>1. \A t \in Syncer \ {s} : sync'[t] = sync[t] BY <1>0, OthersStay
  <1>2. /\ sync'[s].pc \in {"failed", "listing"}
        /\ sync'[s].pc = "listing" => sync'[s].desired # {}
        /\ zone' = zone /\ Meanwhile(s, {}, {})
    BY <1>0 DEF Call
  <1> QED BY <1>1, <1>2, QuietMine

\* Properties of a step, as the theorems state them.
StepPromises ==
    /\ zone # {} /\ zone' = {} =>
          \A s \in Syncer : Busy(s) /\ sync'[s] # sync[s] => sync[s].desired \subseteq gone[s]
    /\ \A s \in Syncer : Busy(s) /\ sync'[s].pc = "ok" =>
          /\ sync[s].desired \subseteq Contents(zone) \cup gone[s]
          /\ ContentsOf("managed") \subseteq sync[s].desired \cup come[s]

LEMMA MineIsEnough ==
  ASSUME SyncInv, NEW s \in Syncer, Mine(s),
         \A t \in Syncer \ {s} : sync'[t] = sync[t] /\ (Busy(t)' <=> Busy(t))
  PROVE  ContentsIdentify' /\ ViewIsCurrent' /\ ListingWants' /\ StepPromises
  <1>1. ContentsIdentify' /\ ViewIsCurrent' BY DEF Mine, ViewIsCurrent
  <1>2. ListingWants' BY DEF Mine, SyncInv, ListingWants
  <1>3. \A t \in Syncer \ {s} : Busy(t) => sync'[t].pc # "ok" BY DEF Busy
  <1>4. StepPromises BY <1>3 DEF Mine, StepPromises
  <1> QED BY <1>1, <1>2, <1>4

LEMMA OwnerMine ==
  ASSUME SyncInv, NEW c \in Content, UserCreates(c)
  PROVE  ContentsIdentify' /\ ViewIsCurrent' /\ ListingWants' /\ StepPromises
  <1>0. /\ TypeOK /\ ContentsIdentify /\ ViewIsCurrent /\ ListingWants
    BY DEF SyncInv, UserInv
  <1>1. PICK id \in RecordId : Fresh(id) /\ zone' = WithRecord(c, "user", id)
    BY DEF UserCreates
  <1>2. sync' = sync /\ gone' = gone /\ come' = come /\ CanCreate(c) BY DEF UserCreates
  <1>3. ContentsIdentify' BY <1>0, <1>1, <1>2, ContentsStay
  <1>4. ASSUME NEW t \in Syncer, sync[t].pc = "applying" PROVE Sees(t)'
    BY <1>0, <1>1, <1>2, <1>4, SeesNew DEF ViewIsCurrent
  <1>5. ViewIsCurrent' BY <1>2, <1>4 DEF ViewIsCurrent
  <1>6. ListingWants' BY <1>0, <1>2 DEF ListingWants
  <1>7. StepPromises BY <1>2 DEF StepPromises, Busy
  <1> QED BY <1>3, <1>5, <1>6, <1>7

LEMMA SyncInvInit == Init => SyncInv
  <1> SUFFICES ASSUME Init PROVE SyncInv OBVIOUS
  <1>1. TypeOK BY InitType
  <1>2. UserRecordsKept /\ IdsIdentify /\ DropsAreManaged /\ ViewIsCurrent /\ ListingWants
    BY DEF Init, UserRecordsKept, IdsIdentify, DropsAreManaged, ViewIsCurrent, ListingWants
  <1>3. ContentsIdentify BY DEF Init, ContentsIdentify
  <1> QED BY <1>1, <1>2, <1>3 DEF UserInv, SyncInv

LEMMA SyncInvNext ==
  ASSUME SyncInv, [Next]_vars
  PROVE  SyncInv' /\ (StepPromises \/ UNCHANGED vars)
  <1>1. CASE UNCHANGED vars
    BY <1>1 DEF vars, SyncInv, UserInv, TypeOK, UserRecordsKept, IdsIdentify,
                DropsAreManaged, ContentsIdentify, ViewIsCurrent, Sees, ListingWants, Contents
  <1>2. CASE Next
    <2>1. TypeOK' BY NextType DEF SyncInv, UserInv
    <2>2. UserRecordsKept' /\ IdsIdentify' /\ DropsAreManaged'
      BY <1>2, UserStep, UserOther DEF Next, SyncInv
    <2>3. ASSUME NEW s \in Syncer, Step(s) \/ \E pool \in Pools : Call(s, pool)
          PROVE  ContentsIdentify' /\ ViewIsCurrent' /\ ListingWants' /\ StepPromises
      <3>1. Mine(s) BY <2>3, StepMine, CallMine
      <3>2. \A t \in Syncer \ {s} : sync'[t] = sync[t] /\ (Busy(t)' <=> Busy(t))
        BY <2>3, OthersStay DEF SyncInv, UserInv
      <3> QED BY <3>1, <3>2, MineIsEnough
    <2>4. ContentsIdentify' /\ ViewIsCurrent' /\ ListingWants' /\ StepPromises
      BY <1>2, <2>3, OwnerMine DEF Next
    <2> QED BY <2>1, <2>2, <2>4 DEF SyncInv, UserInv
  <1> QED BY <1>1, <1>2

\* Any number of goroutines inside Sync: a reported success is a published pool, but for
\* what others deleted or created since this one listed the records.
THEOREM SuccessIsPublished == Spec => SuccessMeansPublished
  <1>1. SyncInv /\ [Next]_vars => SyncInv'
    BY SyncInvNext
  <1>2. SyncInv /\ [Next]_vars =>
          [\A s \in Syncer : Busy(s) /\ sync'[s].pc = "ok" =>
              /\ sync[s].desired \subseteq Contents(zone) \cup gone[s]
              /\ ContentsOf("managed") \subseteq sync[s].desired \cup come[s]]_vars
    BY SyncInvNext DEF StepPromises
  <1> QED BY <1>1, <1>2, SyncInvInit, PTL DEF Spec, SuccessMeansPublished

\* Any number of goroutines inside Sync: the name loses its last record only to one
\* whose wanted addresses others have deleted since it listed the records (dns.go:80).
THEOREM EmptiedTogetherOnly == Spec => EmptiedOnlyTogether
  <1>1. SyncInv /\ [Next]_vars => SyncInv'
    BY SyncInvNext
  <1>2. SyncInv /\ [Next]_vars =>
          [zone # {} /\ zone' = {} =>
              \A s \in Syncer : Busy(s) /\ sync'[s] # sync[s] => sync[s].desired \subseteq gone[s]]_vars
    BY SyncInvNext DEF StepPromises
  <1> QED BY <1>1, <1>2, SyncInvInit, PTL DEF Spec, EmptiedOnlyTogether

-----------------------------------------------------------------------------
(***************************************************************************)
(* Goroutines inside Sync act as calls of DNSCall.  What one does follows    *)
(* from its list answer; what DNSCall asks for is about the zone as it is    *)
(* and what others did.  ViewIsCurrent says that the two agree.             *)
(***************************************************************************)
LEMMA OwnersShare ==
  ASSUME TypeOK PROVE Contents(zone) = ContentsOf("managed") \cup ContentsOf("user")
  BY DEF TypeOK, Record, Contents, ContentsOf

LEMMA ContentsIn ==
  ASSUME TypeOK, NEW owner PROVE ContentsOf(owner) \in SUBSET Content
  BY DEF TypeOK, Record, Contents, ContentsOf

\* A new record counts for its owner.
LEMMA CreationMapped ==
  ASSUME NEW c, NEW id, NEW owner \in {"managed", "user"}, NEW other \in {"managed", "user"},
         other # owner, zone' = WithRecord(c, owner, id)
  PROVE  /\ ContentsOf(owner)' = ContentsOf(owner) \cup {c}
         /\ ContentsOf(other)' = ContentsOf(other)
  <1> DEFINE new == [id |-> id, content |-> c, owner |-> owner]
  <1>1. zone' = zone \cup {new} BY DEF WithRecord
  <1>2. new.content = c /\ new.owner = owner OBVIOUS
  <1> HIDE DEF new
  <1>3. /\ {r \in zone' : r.owner = owner} = {r \in zone : r.owner = owner} \cup {new}
        /\ {r \in zone' : r.owner = other} = {r \in zone : r.owner = other}
    BY <1>1, <1>2
  <1> QED BY <1>2, <1>3 DEF ContentsOf, Contents

\* A step of one goroutine changes what it asked for, and its answer, only.
LEMMA TaskMapped ==
  ASSUME TypeOK, NEW s \in Syncer, NEW task \in Task, sync' = [sync EXCEPT ![s] = task]
  PROVE  /\ Wanted' = [Wanted EXCEPT ![s] = task.desired]
         /\ Answer' = [Answer EXCEPT ![s] =
               CASE task.pc = "idle" -> "none"
                 [] task.pc \in {"listing", "applying"} -> "pending"
                 [] OTHER -> task.pc]
  <1>1. sync \in [Syncer -> Task] BY DEF TypeOK
  <1>2. sync'[s] = task /\ \A t \in Syncer \ {s} : sync'[t] = sync[t] BY <1>1
  <1>3. /\ Wanted = [t \in Syncer |-> sync[t].desired]
        /\ Wanted' = [t \in Syncer |-> sync'[t].desired]
    BY DEF Wanted
  <1>4. Wanted' = [Wanted EXCEPT ![s] = task.desired] BY <1>2, <1>3
  <1>5. Answer' = [t \in Syncer |-> CASE sync'[t].pc = "idle" -> "none"
                                      [] sync'[t].pc \in {"listing", "applying"} -> "pending"
                                      [] OTHER -> sync'[t].pc]
    BY DEF Answer, Busy
  <1>6. Answer = [t \in Syncer |-> CASE sync[t].pc = "idle" -> "none"
                                     [] sync[t].pc \in {"listing", "applying"} -> "pending"
                                     [] OTHER -> sync[t].pc]
    BY DEF Answer, Busy
  <1>7. Answer' = [Answer EXCEPT ![s] =
               CASE task.pc = "idle" -> "none"
                 [] task.pc \in {"listing", "applying"} -> "pending"
                 [] OTHER -> task.pc]
    BY <1>2, <1>5, <1>6
  <1> QED BY <1>4, <1>7

\* The same for steps that leave the wanted addresses as they are.
LEMMA AnswerMapped ==
  ASSUME TypeOK, NEW s \in Syncer, NEW task \in Task, sync' = [sync EXCEPT ![s] = task],
         task.desired = sync[s].desired
  PROVE  /\ Wanted' = Wanted
         /\ task.pc = "failed" => Answer' = [Answer EXCEPT ![s] = "failed"]
         /\ task.pc = "ok" => Answer' = [Answer EXCEPT ![s] = "ok"]
         /\ task.pc = "applying" /\ Busy(s) => Answer' = Answer
  <1>1. /\ Wanted' = [Wanted EXCEPT ![s] = task.desired]
        /\ Answer' = [Answer EXCEPT ![s] =
               CASE task.pc = "idle" -> "none"
                 [] task.pc \in {"listing", "applying"} -> "pending"
                 [] OTHER -> task.pc]
    BY TaskMapped
  <1>2. Wanted' = Wanted BY <1>1 DEF Wanted
  <1>3. ASSUME task.pc = "applying", Busy(s) PROVE Answer' = Answer
    <2>1. Answer' = [Answer EXCEPT ![s] = "pending"] BY <1>1, <1>3
    <2>2. Answer[s] = "pending" BY <1>3 DEF Answer, Busy
    <2>3. Answer = [t \in Syncer |-> Answer[t]] BY DEF Answer
    <2> QED BY <2>1, <2>2, <2>3
  <1> QED BY <1>1, <1>2, <1>3

LEMMA FailMapped ==
  ASSUME TypeOK, NEW s \in Syncer, Fail(s)
  PROVE  Wanted' = Wanted /\ Answer' = [Answer EXCEPT ![s] = "failed"]
  <1> DEFINE task == [pc |-> "failed", desired |-> sync[s].desired, add |-> {}, drop |-> {}]
  <1>1. sync' = [sync EXCEPT ![s] = task] BY DEF Fail
  <1>2. sync[s] \in Task BY DEF TypeOK
  <1>3. task \in Task /\ task.desired = sync[s].desired /\ task.pc = "failed"
    BY <1>2 DEF Task
  <1> HIDE DEF task
  <1> QED BY <1>1, <1>3, AnswerMapped

\* The history of a step is the one that DNSCall keeps.
LEMMA HistoryMapped ==
  ASSUME TypeOK, TypeOK', NEW s \in Syncer, NEW took, NEW brought, Meanwhile(s, took, brought)
  PROVE  Calls!Meanwhile(s, took, brought)
  <1>1. \A t \in Syncer : sync'[t].pc \in {"idle", "listing", "applying", "ok", "failed"}
    BY DEF TypeOK, Task
  <1>2. \A t \in Syncer : Answer'[t] # "pending" <=> ~Busy(t)'
    BY <1>1 DEF Answer, Busy
  <1> QED BY <1>2 DEF Meanwhile, Calls!Meanwhile

LEMMA StepIsCall ==
  ASSUME SyncInv, TypeOK', NEW s \in Syncer, Step(s)
  PROVE  [Calls!Next]_Calls!vars
  <1>0. TypeOK /\ IdsIdentify /\ ContentsIdentify /\ DropsAreManaged /\ ViewIsCurrent
    BY DEF SyncInv, UserInv
  <1>t. sync[s] \in Task /\ sync[s].pc \in {"listing", "applying"} /\ Busy(s)
    BY <1>0 DEF TypeOK, Step, List, ListFails, Return, Create, CreateFails, Delete,
                DeleteFails, MayCreate, MayDelete, Busy
  <1>p. Answer[s] = "pending" /\ Wanted[s] = sync[s].desired
    BY <1>t DEF Answer, Wanted, Busy
  <1>v. sync[s].pc = "applying" => Sees(s) BY <1>0 DEF ViewIsCurrent
  <1>h. \A took, brought : Meanwhile(s, took, brought) => Calls!Meanwhile(s, took, brought)
    BY <1>0, HistoryMapped
  <1>z. ASSUME zone' = zone
        PROVE  ContentsOf("managed")' = ContentsOf("managed")
               /\ ContentsOf("user")' = ContentsOf("user")
    BY <1>z DEF ContentsOf, Contents
  <1>f. ASSUME Fail(s), zone' = zone, Meanwhile(s, {}, {}) PROVE Calls!Fails(s)
    BY <1>0, <1>f, <1>p, <1>z, <1>h, FailMapped DEF Calls!Fails, Calls!Answers
  <1>1. CASE List(s)
    <2> DEFINE d == sync[s].desired
               task == [pc |-> "applying", desired |-> d,
                        add |-> Missing(d, zone), drop |-> Stale(d, zone)]
    <2>1. sync' = [sync EXCEPT ![s] = task] /\ zone' = zone BY <1>1 DEF List
    <2>2. d \in SUBSET Content BY <1>t DEF Task
    <2>3. task \in Task BY <1>0, <2>2, DifferenceType DEF TypeOK, Task
    <2>4. task.pc = "applying" /\ task.desired = sync[s].desired OBVIOUS
    <2> HIDE DEF task
    <2>5. Wanted' = Wanted /\ Answer' = Answer
      BY <1>0, <1>t, <2>1, <2>3, <2>4, AnswerMapped
    <2>6. gone' = [gone EXCEPT ![s] = {}] /\ come' = [come EXCEPT ![s] = {}] BY <1>1 DEF List
    <2>7. Calls!Looks(s) BY <1>p, <1>z, <2>1, <2>5, <2>6 DEF Calls!Looks
    <2> QED BY <2>7 DEF Calls!Next
  <1>2. CASE Return(s)
    <2> DEFINE task == [sync[s] EXCEPT !.pc = "ok"]
    <2>1. /\ sync' = [sync EXCEPT ![s] = task] /\ zone' = zone
          /\ sync[s].pc = "applying" /\ sync[s].add = {} /\ sync[s].drop = {}
          /\ Meanwhile(s, {}, {})
      BY <1>2 DEF Return
    <2>2. task \in Task /\ task.pc = "ok" /\ task.desired = sync[s].desired
      BY <1>t DEF Task
    <2> HIDE DEF task
    <2>3. Wanted' = Wanted /\ Answer' = [Answer EXCEPT ![s] = "ok"]
      BY <1>0, <2>1, <2>2, AnswerMapped
    <2>4. sync[s].desired \subseteq Contents(zone) \cup gone[s] BY <1>v, <2>1 DEF Sees
    <2>5. ContentsOf("managed") \subseteq sync[s].desired \cup come[s]
      BY <1>v, <2>1 DEF Sees, ContentsOf, Contents
    <2>6. Calls!Succeeds(s)
      BY <1>0, <1>p, <1>z, <1>h, <2>1, <2>3, <2>4, <2>5, OwnersShare
      DEF Calls!Succeeds, Calls!Answers
    <2> QED BY <2>6 DEF Calls!Next
  <1>3. ASSUME NEW c \in Content, Create(s, c) PROVE Calls!Adds(s)
    <2>1. PICK id \in RecordId : zone' = WithRecord(c, "managed", id)
      BY <1>3 DEF Create
    <2>2. /\ c \in sync[s].add /\ sync[s].pc = "applying" /\ c \notin Contents(zone)
          /\ Calls!Meanwhile(s, {}, {c})
      BY <1>3, <1>h DEF Create, MayCreate, CanCreate
    <2>3. c \in sync[s].desired BY <1>v, <2>2 DEF Sees
    <2>4. /\ ContentsOf("managed")' = ContentsOf("managed") \cup {c}
          /\ ContentsOf("user")' = ContentsOf("user")
      BY <2>1, CreationMapped
    <2>5. Wanted' = Wanted /\ (Answer' = Answer \/ Answer' = [Answer EXCEPT ![s] = "failed"])
      <3>1. CASE Fail(s) BY <1>0, <3>1, FailMapped
      <3>2. CASE sync' = [sync EXCEPT ![s].add = @ \ {c}]
        <4> DEFINE task == [sync[s] EXCEPT !.add = @ \ {c}]
        <4>1. sync' = [sync EXCEPT ![s] = task] BY <3>2
        <4>2. task \in Task /\ task.pc = "applying" /\ task.desired = sync[s].desired
          BY <1>t, <2>2 DEF Task
        <4> HIDE DEF task
        <4> QED BY <1>0, <1>t, <4>1, <4>2, AnswerMapped
      <3> QED BY <1>3, <3>1, <3>2 DEF Create
    <2>6. Calls!Changes(s) BY <1>p, <2>5 DEF Calls!Changes, Calls!Answers
    <2>7. c \in Wanted[s] \ (ContentsOf("managed") \cup ContentsOf("user"))
      BY <1>0, <1>p, <2>2, <2>3, OwnersShare
    <2> QED BY <2>2, <2>4, <2>5, <2>6, <2>7 DEF Calls!Adds
  <1>4. ASSUME NEW id \in RecordId, Delete(s, id) PROVE Calls!Removes(s)
    <2>1. /\ sync[s].pc = "applying" /\ sync[s].add = {} /\ id \in sync[s].drop
          /\ id \in Ids(zone) /\ zone' = {r \in zone : r.id # id}
          /\ Meanwhile(s, Contents({r \in zone : r.id = id}), {})
      BY <1>4 DEF Delete, MayDelete
    <2>2. PICK q \in zone : q.id = id BY <2>1 DEF Ids
    <2>3. zone' = zone \ {q} /\ {r \in zone : r.id = id} = {q}
      BY <1>0, <2>1, <2>2 DEF IdsIdentify
    <2>4. Contents({r \in zone : r.id = id}) = {q.content} BY <2>3 DEF Contents
    <2>5. Calls!Meanwhile(s, {q.content}, {}) BY <1>h, <2>1, <2>4
    <2>6. q.owner = "managed" /\ q.content \notin sync[s].desired
      BY <1>0, <1>v, <2>1, <2>2 DEF DropsAreManaged, Sees
    <2>7. sync[s].desired \subseteq Contents(zone) \cup gone[s] BY <1>v, <2>1 DEF Sees
    <2>8. ContentsOf("user")' = ContentsOf("user")
      BY <2>3, <2>6 DEF ContentsOf, Contents
    <2>9. q.content \in ContentsOf("managed") BY <2>6 DEF ContentsOf, Contents
    <2>10. ContentsOf("managed")' = ContentsOf("managed") \ {q.content}
      BY <1>0, <2>3, <2>6 DEF ContentsOf, Contents, ContentsIdentify
    <2>11. Wanted' = Wanted /\ (Answer' = Answer \/ Answer' = [Answer EXCEPT ![s] = "failed"])
      <3>1. CASE Fail(s) BY <1>0, <3>1, FailMapped
      <3>2. CASE sync' = [sync EXCEPT ![s].drop = @ \ {id}]
        <4> DEFINE task == [sync[s] EXCEPT !.drop = @ \ {id}]
        <4>1. sync' = [sync EXCEPT ![s] = task] BY <3>2
        <4>2. task \in Task /\ task.pc = "applying" /\ task.desired = sync[s].desired
          BY <1>t, <2>1 DEF Task
        <4> HIDE DEF task
        <4> QED BY <1>0, <1>t, <4>1, <4>2, AnswerMapped
      <3> QED BY <1>4, <3>1, <3>2 DEF Delete
    <2>12. Calls!Changes(s) BY <1>p, <2>11 DEF Calls!Changes, Calls!Answers
    <2>13. Wanted[s] \subseteq ContentsOf("managed") \cup ContentsOf("user") \cup gone[s]
      BY <1>0, <1>p, <2>7, OwnersShare
    <2>14. q.content \in ContentsOf("managed") \ Wanted[s] BY <1>p, <2>6, <2>9
    <2> QED BY <2>5, <2>8, <2>10, <2>11, <2>12, <2>13, <2>14 DEF Calls!Removes
  <1>5. CASE ListFails(s) BY <1>5, <1>f DEF ListFails, Calls!Next
  <1>6. ASSUME NEW c \in Content, CreateFails(s, c) PROVE Calls!Fails(s)
    BY <1>6, <1>f DEF CreateFails
  <1>7. ASSUME NEW id \in RecordId, DeleteFails(s, id) PROVE Calls!Fails(s)
    BY <1>7, <1>f DEF DeleteFails
  <1> QED BY <1>1, <1>2, <1>3, <1>4, <1>5, <1>6, <1>7 DEF Step, Calls!Next

LEMMA OthersAreCall ==
  ASSUME SyncInv, TypeOK'
  PROVE  /\ \A s \in Syncer, pool \in Pools : Call(s, pool) => Calls!Begins(s)
         /\ \A c \in Content : UserCreates(c) => Calls!OwnerAdds
  <1>0. TypeOK BY DEF SyncInv, UserInv
  <1>1. ASSUME NEW s \in Syncer, NEW pool \in Pools, Call(s, pool) PROVE Calls!Begins(s)
    <2> DEFINE D == Desired(pool)
               task == [pc |-> IF D = {} THEN "failed" ELSE "listing",
                        desired |-> D, add |-> {}, drop |-> {}]
    <2>1. sync' = [sync EXCEPT ![s] = task] /\ zone' = zone /\ ~ Busy(s)
      BY <1>1 DEF Call
    <2>2. D \in SUBSET Content BY DesiredType
    <2> HIDE DEF D
    <2>3. task \in Task /\ task.desired = D BY <2>2 DEF Task
    <2>4. /\ Wanted' = [Wanted EXCEPT ![s] = D]
          /\ Answer' = [Answer EXCEPT ![s] = IF D = {} THEN "failed" ELSE "pending"]
      <3>1. task.pc = (IF D = {} THEN "failed" ELSE "listing") OBVIOUS
      <3> HIDE DEF task
      <3>2. /\ Wanted' = [Wanted EXCEPT ![s] = task.desired]
            /\ Answer' = [Answer EXCEPT ![s] =
                  CASE task.pc = "idle" -> "none"
                    [] task.pc \in {"listing", "applying"} -> "pending"
                    [] OTHER -> task.pc]
        BY <1>0, <2>1, <2>3, TaskMapped
      <3>3. CASE D = {} BY <2>3, <3>1, <3>2, <3>3
      <3>4. CASE D # {} BY <2>3, <3>1, <3>2, <3>4
      <3> QED BY <3>3, <3>4
    <2>5. Answer[s] # "pending"
      <3>1. sync[s].pc \in {"idle", "ok", "failed"}
        BY <1>0, <2>1 DEF TypeOK, Task, Busy
      <3> QED BY <3>1 DEF Answer, Busy
    <2>6. /\ ContentsOf("managed")' = ContentsOf("managed")
          /\ ContentsOf("user")' = ContentsOf("user")
      BY <2>1 DEF ContentsOf, Contents
    <2>7. Calls!Meanwhile(s, {}, {}) BY <1>0, <1>1, HistoryMapped DEF Call
    <2> QED BY <2>2, <2>4, <2>5, <2>6, <2>7 DEF Calls!Begins, Calls!Answers
  <1>2. ASSUME NEW c \in Content, UserCreates(c) PROVE Calls!OwnerAdds
    <2>1. PICK id \in RecordId : zone' = WithRecord(c, "user", id)
      BY <1>2 DEF UserCreates
    <2>2. c \notin Contents(zone) /\ sync' = sync /\ gone' = gone /\ come' = come
      BY <1>2 DEF UserCreates, CanCreate
    <2>3. /\ ContentsOf("user")' = ContentsOf("user") \cup {c}
          /\ ContentsOf("managed")' = ContentsOf("managed")
      BY <2>1, CreationMapped
    <2>4. Wanted' = Wanted /\ Answer' = Answer BY <2>2 DEF Wanted, Answer, Busy
    <2> QED BY <1>0, <2>2, <2>3, <2>4, OwnersShare DEF Calls!OwnerAdds
  <1> QED BY <1>1, <1>2

\* Any number of goroutines inside Sync: whatever fails, and whatever the owner does
\* meanwhile, each of them is the call that ForwardPool takes it for.
THEOREM SyncsAreCalls == Spec => ActsAsCalls
  <1>1. Init => Calls!Init
    <2> SUFFICES ASSUME Init PROVE Calls!Init OBVIOUS
    <2>1. \A s \in Syncer : sync[s].pc = "idle" /\ sync[s].desired = {} BY DEF Init
    <2>2. Wanted = [s \in Syncer |-> {}] BY <2>1 DEF Wanted
    <2>3. Answer = [s \in Syncer |-> "none"] BY <2>1 DEF Answer, Busy
    <2>4. TypeOK BY InitType
    <2>5. gone = [s \in Syncer |-> {}] /\ come = [s \in Syncer |-> {}] BY DEF Init
    <2> QED BY <2>2, <2>3, <2>4, <2>5, ContentsIn DEF Calls!Init
  <1>2. SyncInv /\ [Next]_vars => [Calls!Next]_Calls!vars
    <2> SUFFICES ASSUME SyncInv, [Next]_vars PROVE [Calls!Next]_Calls!vars OBVIOUS
    <2>0. TypeOK' BY NextType DEF SyncInv, UserInv
    <2>1. CASE UNCHANGED vars
      BY <2>1 DEF vars, Calls!vars, ContentsOf, Contents, Wanted, Answer, Busy
    <2>2. ASSUME NEW s \in Syncer, Step(s) PROVE [Calls!Next]_Calls!vars
      BY <2>0, <2>2, StepIsCall
    <2>3. ASSUME NEW s \in Syncer, NEW pool \in Pools, Call(s, pool) PROVE Calls!Next
      BY <2>0, <2>3, OthersAreCall DEF Calls!Next
    <2>4. ASSUME NEW c \in Content, UserCreates(c) PROVE Calls!Next
      BY <2>0, <2>4, OthersAreCall DEF Calls!Next
    <2> QED BY <2>1, <2>2, <2>3, <2>4 DEF Next
  <1>3. SyncInv /\ [Next]_vars => SyncInv' BY SyncInvNext
  <1> QED BY <1>1, <1>2, <1>3, SyncInvInit, PTL DEF Spec, ActsAsCalls, Calls!Spec

=============================================================================
