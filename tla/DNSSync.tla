------------------------------- MODULE DNSSync -------------------------------
(***************************************************************************)
(* Publishing the best addresses as DNS records: cloudflare.Client.Sync    *)
(* (internal/cloudflare/dns.go) run by any number of goroutines against    *)
(* one Cloudflare record name.  Sync holds no lock: the maintain loop, a   *)
(* scan and a Web handler may each be inside it at the same time.  Every   *)
(* API request is one action, and each of them may fail, with or without   *)
(* having taken effect at Cloudflare (a lost answer, a 20 s timeout).      *)
(***************************************************************************)
EXTENDS Naturals, Sequences, FiniteSets, SequencesExt

CONSTANTS
    Syncer,         \* goroutines that call Sync
    Content,        \* addresses of the configured record type (A or AAAA)
    OtherFamily,    \* addresses of the other family, which Sync skips
    RecordId,       \* identifiers Cloudflare gives to records
    SyncCount       \* cloudflare_dns.sync_count

ASSUME SyncCountAssumption == SyncCount \in Nat \ {0}
ASSUME FamilyAssumption == Content \cap OtherFamily = {}

VARIABLES
    zone,       \* the records of the name at Cloudflare
    userRecs,   \* those of them that the owner of the zone made by hand
    sync,       \* what each goroutine knows inside Sync
    gone,       \* history: addresses that others deleted since it listed the records
    come        \* history: addresses that others created since then

vars == <<zone, userRecs, sync, gone, come>>

Record == [id: RecordId, content: Content, owner: {"managed", "user"}]

\* A goroutine inside Sync: the addresses it wants, the creations and the
\* deletions it still has to request.
Task == [pc: {"idle", "listing", "applying", "ok", "failed"},
         desired: SUBSET Content, add: SUBSET Content, drop: SUBSET RecordId]

Contents(recs) == {r.content : r \in recs}
Ids(recs) == {r.id : r \in recs}

\* Pools as Sync receives them: sorted by latency, each address once.
Pools == UNION {SetToSeqs(S) : S \in SUBSET (Content \cup OtherFamily)}

TypeOK ==
    /\ zone \in SUBSET Record
    /\ userRecs \in SUBSET Record
    /\ sync \in [Syncer -> Task]
    /\ gone \in [Syncer -> SUBSET Content]
    /\ come \in [Syncer -> SUBSET Content]

Init ==
    /\ zone \in {{}} \cup {{r} : r \in Record}
    /\ userRecs = {r \in zone : r.owner = "user"}
    /\ sync = [s \in Syncer |->
                 [pc |-> "idle", desired |-> {}, add |-> {}, drop |-> {}]]
    /\ gone = [s \in Syncer |-> {}]
    /\ come = [s \in Syncer |-> {}]

(***************************************************************************)
(* The request a goroutine makes.                                          *)
(***************************************************************************)

DesiredOfAnyFamily(pool) == {pool[k] : k \in {n \in 1..Len(pool) : n <= SyncCount}}
\* The first SyncCount addresses of the record type, in pool order.
Desired(pool) ==
    {pool[k] : k \in {n \in 1..Len(pool) :
        /\ pool[n] \in Content
        /\ Cardinality({m \in 1..(n - 1) : pool[m] \in Content}) < SyncCount}}

\* What Sync decides to create and to delete from the records it listed.
Missing(desired, listed) == desired \ Contents(listed)
StaleNoMarker(desired, listed) == Ids({r \in listed : r.content \notin desired})
StaleForgotten(desired, listed) == {}
Stale(desired, listed) ==
    Ids({r \in listed : r.owner = "managed" /\ r.content \notin desired})

Busy(s) == sync[s].pc \in {"listing", "applying"}

FailUnnoticed(s) == sync' = [sync EXCEPT ![s] = [pc |-> "ok", desired |-> @.desired,
                                                 add |-> {}, drop |-> {}]]
Fail(s) == sync' = [sync EXCEPT ![s] = [pc |-> "failed", desired |-> @.desired,
                                        add |-> {}, drop |-> {}]]

\* The history of a step of s, which takes some addresses away and brings some.
Meanwhile(s, took, brought) ==
    /\ gone' = [t \in Syncer |-> IF ~Busy(t)' THEN {}
                                ELSE IF t = s THEN gone[t] ELSE gone[t] \cup took]
    /\ come' = [t \in Syncer |-> IF ~Busy(t)' THEN {}
                                ELSE IF t = s THEN come[t] ELSE come[t] \cup brought]

\* Sync is called with the current pool.  A pool with nothing to publish is an
\* error before any request, so the existing records stay.
Call(s, pool) ==
    /\ ~Busy(s)
    /\ sync' = [sync EXCEPT ![s] =
         [pc |-> IF Desired(pool) = {} THEN "failed" ELSE "listing",
          desired |-> Desired(pool), add |-> {}, drop |-> {}]]
    /\ Meanwhile(s, {}, {})
    /\ UNCHANGED <<zone, userRecs>>

List(s) ==
    /\ sync[s].pc = "listing"
    /\ sync' = [sync EXCEPT ![s] = [pc |-> "applying", desired |-> @.desired,
                                    add |-> Missing(@.desired, zone),
                                    drop |-> Stale(@.desired, zone)]]
    /\ gone' = [gone EXCEPT ![s] = {}] /\ come' = [come EXCEPT ![s] = {}]
    /\ UNCHANGED <<zone, userRecs>>

ListFails(s) ==
    /\ sync[s].pc = "listing"
    /\ Fail(s)
    /\ Meanwhile(s, {}, {})
    /\ UNCHANGED <<zone, userRecs>>

(***************************************************************************)
(* Cloudflare.                                                             *)
(***************************************************************************)

\* Identifiers are never used again while anybody remembers them.
Fresh(id) == id \notin Ids(zone) \cup UNION {sync[s].drop : s \in Syncer}

\* Cloudflare refuses a second record with the same name, type and content.
CanCreate(c) == c \notin Contents(zone)

WithRecord(c, owner, id) == zone \cup {[id |-> id, content |-> c, owner |-> owner]}

(***************************************************************************)
(* Applying the difference: all creations first, then the deletions.       *)
(***************************************************************************)

MayCreate(s, c) == sync[s].pc = "applying" /\ c \in sync[s].add

MayDeleteAtOnce(s, id) == sync[s].pc = "applying" /\ id \in sync[s].drop
MayDelete(s, id) ==
    /\ sync[s].pc = "applying"
    /\ sync[s].add = {}
    /\ id \in sync[s].drop

Create(s, c) ==
    /\ MayCreate(s, c)
    /\ CanCreate(c)
    /\ \E id \in RecordId : Fresh(id) /\ zone' = WithRecord(c, "managed", id)
    /\ \/ sync' = [sync EXCEPT ![s].add = @ \ {c}]
       \/ Fail(s)                           \* created, but the answer is lost
    /\ Meanwhile(s, {}, {c})
    /\ UNCHANGED userRecs

CreateFails(s, c) ==
    /\ MayCreate(s, c)
    /\ Fail(s)
    /\ Meanwhile(s, {}, {})
    /\ UNCHANGED <<zone, userRecs>>

Delete(s, id) ==
    /\ MayDelete(s, id)
    /\ id \in Ids(zone)
    /\ zone' = {r \in zone : r.id # id}
    /\ \/ sync' = [sync EXCEPT ![s].drop = @ \ {id}]
       \/ Fail(s)                           \* deleted, but the answer is lost
    /\ Meanwhile(s, Contents({r \in zone : r.id = id}), {})
    /\ UNCHANGED userRecs

\* Also the answer (404) when another goroutine deleted the record first.
DeleteFails(s, id) ==
    /\ MayDelete(s, id)
    /\ Fail(s)
    /\ Meanwhile(s, {}, {})
    /\ UNCHANGED <<zone, userRecs>>

Return(s) ==
    /\ sync[s].pc = "applying"
    /\ sync[s].add = {} /\ sync[s].drop = {}
    /\ sync' = [sync EXCEPT ![s].pc = "ok"]
    /\ Meanwhile(s, {}, {})
    /\ UNCHANGED <<zone, userRecs>>

(***************************************************************************)
(* The owner of the zone adds records of the same name by hand.            *)
(***************************************************************************)

UserCreates(c) ==
    /\ CanCreate(c)
    /\ \E id \in RecordId :
         /\ Fresh(id)
         /\ zone' = WithRecord(c, "user", id)
         /\ userRecs' = userRecs \cup {[id |-> id, content |-> c, owner |-> "user"]}
    /\ UNCHANGED <<sync, gone, come>>

Step(s) ==
    \/ List(s) \/ ListFails(s) \/ Return(s)
    \/ \E c \in Content : Create(s, c) \/ CreateFails(s, c)
    \/ \E id \in RecordId : Delete(s, id) \/ DeleteFails(s, id)

Next ==
    \/ \E s \in Syncer : Step(s) \/ \E pool \in Pools : Call(s, pool)
    \/ \E c \in Content : UserCreates(c)

Spec == Init /\ [][Next]_vars

-----------------------------------------------------------------------------
(***************************************************************************)
(* Properties.                                                             *)
(***************************************************************************)

\* Records without the marker comment are the owner's: no interleaving of any
\* number of syncs, failures and hand edits makes the program delete one.
UserRecordsKept == userRecs = {r \in zone : r.owner = "user"}

\* However many goroutines are inside Sync at once, creating before deleting keeps the
\* name from resolving to nothing (dns.go:80), as far as the others let it: a goroutine
\* deletes the last record only when all the addresses it wants were deleted by others
\* since it listed the records.
EmptiedOnlyTogether ==
    [][zone # {} /\ zone' = {} =>
          \A s \in Syncer : Busy(s) /\ sync'[s] # sync[s] => sync[s].desired \subseteq gone[s]]_vars

\* When Sync reports success the name resolves to exactly the wanted addresses, apart
\* from records the owner made and from what other goroutines deleted or created since
\* this one listed the records.
ContentsOf(owner) == Contents({r \in zone : r.owner = owner})
SuccessMeansPublished ==
    [][\A s \in Syncer : Busy(s) /\ sync'[s].pc = "ok" =>
          /\ sync[s].desired \subseteq Contents(zone) \cup gone[s]
          /\ ContentsOf("managed") \subseteq sync[s].desired \cup come[s]]_vars

\* Goroutines that call Sync at the same time, each from a list answer that may be old,
\* act as calls of DNSCall: the owner adds records meanwhile, requests fail after they
\* took effect, and earlier calls have left any part of their work behind.
Wanted == [s \in Syncer |-> sync[s].desired]
Answer == [s \in Syncer |-> CASE sync[s].pc = "idle" -> "none"
                              [] Busy(s) -> "pending"
                              [] OTHER -> sync[s].pc]
Calls == INSTANCE DNSCall WITH
    Caller <- Syncer, wanted <- Wanted, answer <- Answer,
    managed <- ContentsOf("managed"), owned <- ContentsOf("user")
ActsAsCalls == Calls!Spec

\* The name never stops resolving through a step of the program, as README.md:219
\* promises.  Violated by two goroutines: each deletes the record that the other one
\* found there and did not create.
NeverEmptied == [][zone # {} => zone' # {}]_vars

-----------------------------------------------------------------------------
(***************************************************************************)
(* The inductive strengthenings the proofs need.                           *)
(***************************************************************************)

\* An identifier names one record.
IdsIdentify == \A r, q \in zone : r.id = q.id => r = q

\* What a goroutine still wants to delete is managed, or gone already.
DropsAreManaged ==
    \A s \in Syncer : \A id \in sync[s].drop : \A r \in zone :
        r.id = id => r.owner = "managed"

\* No address has two records.
ContentsIdentify == \A r, q \in zone : r.content = q.content => r = q

\* A goroutine never loses sight of the zone, but for what others do: between its list
\* request and its return it knows every stale record, and deletes none that it wants.
Sees(s) ==
    /\ sync[s].desired # {}
    /\ sync[s].add \subseteq sync[s].desired
    /\ sync[s].desired \subseteq Contents(zone) \cup sync[s].add \cup gone[s]
    /\ \A r \in zone : r.id \in sync[s].drop => r.content \notin sync[s].desired
    /\ \A r \in zone : r.owner = "managed" =>
          r.content \in sync[s].desired \cup come[s] \/ r.id \in sync[s].drop
ViewIsCurrent == \A s \in Syncer : sync[s].pc = "applying" => Sees(s)

=============================================================================
